---- MODULE Spec2Model ----
(***************************************************************************)
(* A model of the skin-analysis pipeline of skincare-ai-app:               *)
(*   - SkinAnalysisService (backend/app/services/skin_analysis_service.py) *)
(*   - ImageQualityChecker and SkinAnalyzer (ml/models/skin_analyzer.py)   *)
(*   - detect_face_3d (backend/app/services/face_detection_service.py)     *)
(*   - FaceDetector (ml/models/face_detector.py)                           *)
(*                                                                         *)
(* Numbers.  Python floats are modelled by integers in a fixed unit:       *)
(*   scores and metrics (0..100)            whole points                   *)
(*   overall_score                          tenths of a point (round(_,1)) *)
(*   confidences and quality scores (0..1)  hundredths                     *)
(* Optional values are sequences of length 0 (None) or 1.                  *)
(* Python dicts are functions; a missing key is a key outside the DOMAIN.  *)
(***************************************************************************)
EXTENDS Integers, Sequences, FiniteSets, TLC

VARIABLES
    \* ---- SkinAnalysisService: fields of the singleton and one call of analyze_skin
    rapidapi_key,     \* self.rapidapi_key
    hashSeed,         \* the process's string-hash seed (orders set iteration)
    pc,               \* position of the analyze_skin call
    image_url,        \* argument image_url
    image_base64,     \* argument image_base64
    response,         \* what the provider call ended in
    api_result,       \* value returned by _analyze_with_rapidapi (optional)
    result,           \* value returned by analyze_skin (optional)
    raised,           \* an exception escaped analyze_skin
    providerCalls,    \* client.post calls made by this analyze_skin call
    localRuns,        \* _analyze_locally calls made by this analyze_skin call
    localOutcome,     \* how _analyze_locally ended in this call
    \* ---- _score_to_severity applied to one score
    sevScore,         \* the argument score
    sevLabel,         \* the returned severity ("unset" before the call)
    \* ---- SkinAnalyzer.analyze (ml/models/skin_analyzer.py), one call
    anPc,             \* position of the analyze call
    anImage,          \* the image, by what check_quality measures of it
    validate_quality, \* argument validate_quality
    quality,          \* the dict check_quality returned (optional)
    anSteps,          \* the steps of analyze executed so far, in order
    anOutcome,        \* "none", "returned" or "raised"
    anError,          \* the dict carried by the raised ValueError (optional)
    \* ---- face location: detect_face_3d and FaceDetector.detect_and_align
    FACE_CASCADE_LOADED, \* module global of face_detection_service
    MEDIAPIPE_LOADED,    \* module global of face_detection_service
    fPc,              \* position of the running call
    fFn,              \* the function called: detect_face_3d or detect_and_align
    image_data,       \* argument of detect_face_3d, by kind
    use_3d_mesh,      \* argument of detect_face_3d
    faces,            \* what detectMultiScale returned: a list of (x, y, w, h)
    f3d,              \* the Face3DData detect_face_3d fills and returns
    meshCalls,        \* face_mesh.process calls made by this call
    detections,       \* the list detect_faces returned
    daResult,         \* what detect_and_align returned (optional)
    cropCalls,        \* crops taken by this detect_and_align call
    resizeCalls,      \* cv2.resize calls made by this detect_and_align call
    fOutcome,         \* "none", "returned" or "raised"
    \* ---- _generate_recommendations applied to one concern list
    recConcerns,      \* the argument concerns
    recOut,           \* the returned list (optional: not yet returned)
    \* ---- _calculate_overall_score applied to one (concerns, metrics) pair
    osMetrics,        \* the argument metrics, each in tenths of a point
    osConcerns,       \* the argument concerns
    osScore,          \* the returned score in tenths (optional: not yet returned)
    \* ---- SkinAnalyzer._calculate_risk_level applied to one concerns dict
    rlConcerns,       \* the argument concerns: concern label -> confidence
    rlLevel,          \* the returned RiskLevel ("unset" before the call)
    \* ---- SkinAnalysis.primary_concern (backend/app/models/skin_analysis.py)
    detected_concerns, \* the JSON column: a list of dicts (optional: None)
    primaryEvaluated,  \* the property has been evaluated
    primary,           \* the value the property returned (optional: None)
    \* ---- several analyze_skin invocations in flight on the singleton service
    timeout,          \* self.timeout
    recommendation_table, \* self.concern_recommendations
    calls,            \* per invocation: its position, arguments and locals
    \* ---- _calculate_head_pose applied to one landmark list
    hpLandmarks,      \* the argument landmarks: its length and the points read
    hpPose,           \* the returned dict (optional: not yet returned)
    \* ---- FaceDetector.extract_skin_regions applied to one face crop
    srCrop,           \* face_crop.shape[:2]: << h, w >>
    srRegions         \* the returned SkinRegions (optional: not yet returned)

svcVars == <<rapidapi_key, hashSeed, pc, image_url, image_base64, response,
             api_result, result, raised, providerCalls, localRuns, localOutcome>>

sevVars == <<sevScore, sevLabel>>

anVars == <<anPc, anImage, validate_quality, quality, anSteps, anOutcome, anError>>

faceVars == <<FACE_CASCADE_LOADED, MEDIAPIPE_LOADED, fPc, fFn, image_data, use_3d_mesh,
              faces, f3d, meshCalls, detections, daResult, cropCalls, resizeCalls,
              fOutcome>>

recVars == <<recConcerns, recOut>>

scoreVars == <<osMetrics, osConcerns, osScore>>

riskVars == <<rlConcerns, rlLevel>>

primVars == <<detected_concerns, primaryEvaluated, primary>>

conVars == <<timeout, recommendation_table, calls>>

headPoseVars == <<hpLandmarks, hpPose>>

regionVars == <<srCrop, srRegions>>

vars == <<svcVars, sevVars, anVars, faceVars, recVars, scoreVars, riskVars, primVars, conVars, headPoseVars, regionVars>>

\* what the steps of one component leave alone: the other components
otherThanSvc == <<sevVars, anVars, faceVars, recVars, scoreVars, riskVars, primVars, conVars, headPoseVars, regionVars>>
otherThanSev == <<svcVars, anVars, faceVars, recVars, scoreVars, riskVars, primVars, conVars, headPoseVars, regionVars>>
otherThanAn == <<svcVars, sevVars, faceVars, recVars, scoreVars, riskVars, primVars, conVars, headPoseVars, regionVars>>
otherThanFace == <<svcVars, sevVars, anVars, recVars, scoreVars, riskVars, primVars, conVars, headPoseVars, regionVars>>
otherThanRec == <<svcVars, sevVars, anVars, faceVars, scoreVars, riskVars, primVars, conVars, headPoseVars, regionVars>>
otherThanScore == <<svcVars, sevVars, anVars, faceVars, recVars, riskVars, primVars, conVars, headPoseVars, regionVars>>
otherThanRisk == <<svcVars, sevVars, anVars, faceVars, recVars, scoreVars, primVars, conVars, headPoseVars, regionVars>>
otherThanPrim == <<svcVars, sevVars, anVars, faceVars, recVars, scoreVars, riskVars, conVars, headPoseVars, regionVars>>
otherThanCon == <<svcVars, sevVars, anVars, faceVars, recVars, scoreVars, riskVars, primVars, headPoseVars, regionVars>>
otherThanHeadPose == <<svcVars, sevVars, anVars, faceVars, recVars, scoreVars, riskVars, primVars, conVars, regionVars>>
otherThanRegions == <<svcVars, sevVars, anVars, faceVars, recVars, scoreVars, riskVars, primVars, conVars, headPoseVars>>

(***************************************************************************)
(* Python values                                                           *)
(***************************************************************************)
None == "None"

\* bool(s) of an Optional[str]
Truthy(s) == s # None /\ s # ""

\* dict.get(k, default)
Get(d, k, default) == IF k \in DOMAIN d THEN d[k] ELSE default

\* the empty dict {}
EmptyDict == <<>>

Max(a, b) == IF a >= b THEN a ELSE b
Min(a, b) == IF a <= b THEN a ELSE b

RECURSIVE SumSeq(_)
SumSeq(s) == IF s = <<>> THEN 0 ELSE Head(s) + SumSeq(Tail(s))

\* the elements of s that are in S, in the order of s
RECURSIVE Filter(_, _)
Filter(s, S) ==
    IF s = <<>> THEN <<>>
    ELSE IF Head(s) \in S THEN <<Head(s)>> \o Filter(Tail(s), S)
    ELSE Filter(Tail(s), S)

RECURSIVE Reverse(_)
Reverse(s) == IF s = <<>> THEN <<>> ELSE Reverse(Tail(s)) \o <<Head(s)>>

Range(s) == { s[i] : i \in 1..Len(s) }

\* s[:n]
Prefix(s, n) == SubSeq(s, 1, Min(n, Len(s)))

(***************************************************************************)
(* SkinAnalysisService: constants of __init__ and the result values        *)
(***************************************************************************)
BasicRecommendations ==
    << "Cleanse skin twice daily with gentle cleanser",
       "Apply broad-spectrum SPF 30+ every morning",
       "Moisturize daily based on your skin type" >>

\* self.concern_recommendations
concern_recommendations ==
    [ acne |-> << "Use a gentle cleanser with salicylic acid",
                  "Apply benzoyl peroxide spot treatment",
                  "Consider retinoid products for prevention",
                  "Avoid touching your face frequently" >>,
      wrinkles |-> << "Use retinol-based products at night",
                      "Apply vitamin C serum in the morning",
                      "Use broad-spectrum SPF 30+ daily",
                      "Consider peptide-based moisturizers" >>,
      dark_spots |-> << "Use vitamin C serum daily",
                        "Apply niacinamide products",
                        "Use AHA exfoliants 2-3 times weekly",
                        "Always wear sunscreen SPF 30+" >>,
      dark_circles |-> << "Get adequate sleep (7-9 hours)",
                          "Use caffeine-based eye creams",
                          "Apply vitamin K eye treatments",
                          "Stay hydrated throughout the day" >>,
      pores |-> << "Use niacinamide serum regularly",
                   "Apply BHA (salicylic acid) products",
                   "Use clay masks weekly",
                   "Keep skin properly hydrated" >>,
      redness |-> << "Use gentle, fragrance-free products",
                     "Apply azelaic acid treatments",
                     "Consider centella asiatica products",
                     "Avoid hot water on face" >>,
      dehydration |-> << "Use hyaluronic acid serums",
                         "Apply ceramide-rich moisturizers",
                         "Drink adequate water daily",
                         "Use a humidifier in dry environments" >> ]

ConcernTypeOrder ==
    << "acne", "wrinkles", "dark_spots", "dark_circles", "pores", "redness",
       "dehydration" >>

\* every string a recommendation set can hold, in one fixed order
RECURSIVE ConcatLists(_)
ConcatLists(types) ==
    IF types = <<>> THEN <<>>
    ELSE concern_recommendations[Head(types)] \o ConcatLists(Tail(types))

RecommendationUniverse == BasicRecommendations \o ConcatLists(ConcernTypeOrder)

Rotate(s, k) ==
    IF Len(s) = 0 THEN s
    ELSE [ i \in 1..Len(s) |-> s[((i - 1 + k) % Len(s)) + 1] ]

\* Iteration order of a Python set of str.  It is fixed by the string hashes,
\* which are randomised per process (PYTHONHASHSEED): the model draws the
\* order from a family of permutations indexed by the seed.
HashOrder(seed) ==
    LET r == Rotate(RecommendationUniverse, (seed \div 2) * 7)
    IN  IF seed % 2 = 0 THEN r ELSE Reverse(r)

\* list(S) for a set S of strings
ListOfSet(S, seed) == Filter(HashOrder(seed), S)

\* SkinMetrics(...): the six fields, each validated ge=0, le=100
SkinMetrics(h, o, t, e, p, s) ==
    [ hydration_score |-> h, oiliness_score |-> o, texture_score |-> t,
      elasticity_score |-> e, pore_size_score |-> p, skin_tone_evenness |-> s ]

MetricsValid(m) ==
    \A f \in DOMAIN m : m[f] >= 0 /\ m[f] <= 100

DefaultMetrics == SkinMetrics(50, 50, 50, 50, 50, 50)

LocalConfidence == 60
LocalImageQuality == 80
LocalOverallScore == 700

\* SkinAnalysisResult(...) as _analyze_locally builds it, by its confidence
LocalAnalysis(confidence) ==
    [ overall_score |-> LocalOverallScore,
      skin_type |-> "combination",
      skin_age |-> <<>>,
      concerns |-> <<>>,
      metrics |-> SkinMetrics(65, 45, 70, 75, 60, 72),
      recommendations |-> << "Use a gentle cleanser twice daily",
                             "Apply moisturizer after cleansing",
                             "Wear SPF 30+ sunscreen daily",
                             "Consider adding vitamin C serum" >>,
      confidence_score |-> confidence,
      image_quality_score |-> LocalImageQuality ]

LocalResultModelGrade == LocalAnalysis(90)

\* the value _analyze_locally returns
LocalResult == LocalAnalysis(LocalConfidence)

\* _get_fallback_result
FallbackResult ==
    [ overall_score |-> 500,
      skin_type |-> "unknown",
      skin_age |-> <<>>,
      concerns |-> <<>>,
      metrics |-> DefaultMetrics,
      recommendations |-> << "Unable to complete full analysis",
                             "Please try again with a clearer image",
                             "Ensure good lighting and face the camera directly" >>,
      confidence_score |-> 0,
      image_quality_score |-> 0 ]

(***************************************************************************)
(* SkinAnalysisService: the pure helpers                                   *)
(***************************************************************************)
SeverityLevels == << "none", "mild", "moderate", "severe", "very_severe" >>

\* the breakpoints compared with <= instead of <
ScoreToSeverityInclusive(score) ==
    IF score <= 20 THEN "none"
    ELSE IF score <= 40 THEN "mild"
    ELSE IF score <= 60 THEN "moderate"
    ELSE IF score <= 80 THEN "severe"
    ELSE "very_severe"

\* _score_to_severity
ScoreToSeverity(score) ==
    IF score < 20 THEN "none"
    ELSE IF score < 40 THEN "mild"
    ELSE IF score < 60 THEN "moderate"
    ELSE IF score < 80 THEN "severe"
    ELSE "very_severe"

\* severity_weights.get(severity, 5)
SeverityWeight(severity) ==
    CASE severity = "none" -> 0
      [] severity = "mild" -> 5
      [] severity = "moderate" -> 10
      [] severity = "severe" -> 15
      [] severity = "very_severe" -> 20
      [] OTHER -> 5

\* round(x, 1) of a value given in hundredths, as a number of tenths.  The
\* values rounded here are even numbers of hundredths, so no tie (x.x5) occurs
\* and the float's round-half-even agrees with this.
RoundToTenths(hundredths) == (hundredths + 5) \div 10

\* the five metrics averaged, oiliness among them instead of hydration
MetricScoresWithOiliness(metrics) ==
    << metrics.oiliness_score, metrics.texture_score, metrics.elasticity_score,
       metrics.pore_size_score, metrics.skin_tone_evenness >>

\* metric_scores of _calculate_overall_score
MetricScores(metrics) ==
    << metrics.hydration_score, metrics.texture_score, metrics.elasticity_score,
       metrics.pore_size_score, metrics.skin_tone_evenness >>

\* _calculate_overall_score for metrics given in 1/unit of a point (unit 1 or
\* 10); the value is in tenths of a point
CalculateOverallScoreIn(unit, concerns, metrics) ==
    LET metric_scores == MetricScores(metrics)
        \* base_score, in hundredths
        base_score == ((100 \div unit) * SumSeq(metric_scores)) \div Len(metric_scores)
        concern_penalty ==
            SumSeq([ i \in 1..Len(concerns) |-> SeverityWeight(concerns[i].severity) ])
        final_score == Max(0, Min(10000, base_score - 100 * concern_penalty))
    IN  RoundToTenths(final_score)

\* _calculate_overall_score on whole-point metrics, in tenths
CalculateOverallScore(concerns, metrics) == CalculateOverallScoreIn(1, concerns, metrics)

\* the strings _generate_recommendations collects in its set
RECURSIVE ConcernRecs(_)
ConcernRecs(concerns) ==
    IF concerns = <<>> THEN {}
    ELSE Range(Prefix(Get(concern_recommendations, Head(concerns).concern_type, <<>>), 2))
         \cup ConcernRecs(Tail(concerns))

MaxRecommendations == 10

\* list(recommendations) without the [:10]
GenerateRecommendationsUncapped(concerns, seed) ==
    ListOfSet(Range(BasicRecommendations) \cup ConcernRecs(concerns), seed)

\* _generate_recommendations
GenerateRecommendations(concerns, seed) ==
    Prefix(ListOfSet(Range(BasicRecommendations) \cup ConcernRecs(concerns), seed),
           MaxRecommendations)

\* the SkinConcern appended whatever the entry's severity
ParseConcernListingNone(concern_type, entry, area) ==
    << [ concern_type |-> concern_type,
         severity |-> ScoreToSeverity(Get(entry, "score", 0)),
         confidence |-> Get(entry, "confidence", 80),
         affected_area |-> area,
         recommendations |-> Get(concern_recommendations, concern_type, <<>>) ] >>

\* SkinConcern(...) appended when the entry's severity is not "none"; the
\* constructor validates confidence ge=0.0, le=1.0
ParseConcern(concern_type, entry, area) ==
    LET severity == ScoreToSeverity(Get(entry, "score", 0))
    IN  IF severity # "none"
        THEN << [ concern_type |-> concern_type,
                  severity |-> severity,
                  confidence |-> Get(entry, "confidence", 80),
                  affected_area |-> area,
                  recommendations |-> Get(concern_recommendations, concern_type, <<>>) ] >>
        ELSE <<>>

\* the concerns list _parse_rapidapi_response builds, in its order
ParseConcerns(data) ==
    (IF "acne" \in DOMAIN data
     THEN ParseConcern("acne", data["acne"], "face") ELSE <<>>)
    \o (IF "wrinkles" \in DOMAIN data
        THEN ParseConcern("wrinkles", data["wrinkles"], "forehead, eye area") ELSE <<>>)
    \o (IF "dark_spots" \in DOMAIN data \/ "pigmentation" \in DOMAIN data
        THEN ParseConcern("dark_spots",
                          Get(data, "dark_spots", Get(data, "pigmentation", EmptyDict)),
                          None)
        ELSE <<>>)
    \o (IF "dark_circles" \in DOMAIN data
        THEN ParseConcern("dark_circles", data["dark_circles"], "under eyes") ELSE <<>>)
    \o (IF "pores" \in DOMAIN data
        THEN ParseConcern("pores", data["pores"], "nose, cheeks") ELSE <<>>)

\* the SkinMetrics _parse_rapidapi_response builds
ParseMetrics(data) ==
    SkinMetrics(Get(Get(data, "hydration", EmptyDict), "score", 50),
                Get(Get(data, "oiliness", EmptyDict), "score", 50),
                Get(Get(data, "texture", EmptyDict), "score", 50),
                Get(Get(data, "elasticity", EmptyDict), "score", 50),
                100 - Get(Get(data, "pores", EmptyDict), "score", 50),
                Get(Get(data, "evenness", EmptyDict), "score", 50))

DefaultProviderConfidence == 85
DefaultProviderImageQuality == 90

\* the SkinAnalysisResult _parse_rapidapi_response builds, before validation
ParsedResult(data, seed) ==
    LET concerns == ParseConcerns(data)
        metrics == ParseMetrics(data)
    IN  [ overall_score |-> CalculateOverallScore(concerns, metrics),
          skin_type |-> Get(data, "skin_type", "normal"),
          skin_age |-> IF "skin_age" \in DOMAIN data THEN << data["skin_age"] >> ELSE <<>>,
          concerns |-> concerns,
          metrics |-> metrics,
          recommendations |-> GenerateRecommendations(concerns, seed),
          confidence_score |-> Get(data, "confidence", DefaultProviderConfidence),
          image_quality_score |-> Get(data, "image_quality", DefaultProviderImageQuality) ]

\* the pydantic Field constraints of SkinConcern, SkinMetrics and
\* SkinAnalysisResult: a violated one raises ValidationError
ResultValid(r) ==
    /\ \A i \in 1..Len(r.concerns) :
          r.concerns[i].confidence >= 0 /\ r.concerns[i].confidence <= 100
    /\ MetricsValid(r.metrics)
    /\ r.overall_score >= 0 /\ r.overall_score <= 1000
    /\ r.confidence_score >= 0 /\ r.confidence_score <= 100
    /\ r.image_quality_score >= 0 /\ r.image_quality_score <= 100

\* _parse_rapidapi_response: the result, or nothing when it raises
ParseRapidapiResponse(data, seed) ==
    LET r == ParsedResult(data, seed)
    IN  IF ResultValid(r) THEN << r >> ELSE <<>>

ParseRaises(data, seed) == ParseRapidapiResponse(data, seed) = <<>>

(***************************************************************************)
(* The inputs the model draws                                              *)
(***************************************************************************)
ImageUrls == { None, "", "https://example.com/face.jpg" }
ImageBase64s == { None, "", "aGVsbG8=" }
ApiKeys == { "", "test-key" }

MaxHashSeed == 1

AcneOptions ==
    { EmptyDict,
      "acne" :> [ score |-> 10, confidence |-> 150 ],
      "acne" :> [ score |-> 45 ],
      "acne" :> [ score |-> 85, confidence |-> 150 ],
      "acne" :> [ score |-> 150, confidence |-> 85 ] }

PoresOptions ==
    { EmptyDict,
      "pores" :> [ score |-> 30, confidence |-> 87 ],
      "pores" :> [ score |-> 130, confidence |-> 87 ] }

HydrationOptions == { EmptyDict, "hydration" :> [ score |-> 150 ] }

SkinTypeOptions == { EmptyDict, "skin_type" :> "oily", "skin_type" :> "greasy" }

ConfidenceOptions ==
    { EmptyDict, "confidence" :> 30, "confidence" :> 88, "confidence" :> 150 }

\* mock_rapidapi_response of the tests
MockRapidapiResponse ==
    [ acne |-> [ score |-> 35, confidence |-> 85 ],
      wrinkles |-> [ score |-> 20, confidence |-> 90 ],
      dark_spots |-> [ score |-> 15, confidence |-> 88 ],
      dark_circles |-> [ score |-> 40, confidence |-> 82 ],
      pores |-> [ score |-> 30, confidence |-> 87 ],
      hydration |-> [ score |-> 65 ],
      oiliness |-> [ score |-> 45 ],
      texture |-> [ score |-> 70 ],
      elasticity |-> [ score |-> 75 ],
      evenness |-> [ score |-> 72 ],
      skin_type |-> "combination",
      skin_age |-> 28,
      confidence |-> 88,
      image_quality |-> 92 ]

\* the JSON objects a 200 response can carry in the model
Payloads ==
    { a @@ p @@ h @@ t @@ c :
        a \in AcneOptions, p \in PoresOptions, h \in HydrationOptions,
        t \in SkinTypeOptions, c \in ConfidenceOptions }
    \cup { MockRapidapiResponse,
           [ pigmentation |-> [ score |-> 60 ], image_quality |-> 120 ],
           [ pigmentation |-> [ score |-> 62, confidence |-> 70 ] ],
           [ dark_spots |-> [ score |-> 10 ], pigmentation |-> [ score |-> 70 ] ],
           [ wrinkles |-> [ confidence |-> 90 ], dark_circles |-> [ score |-> 99 ],
             elasticity |-> [ score |-> 0 - 5 ] ] }

NoResponse == [ kind |-> "none", status_code |-> 0, json |-> <<>> ]

\* how client.post can end: httpx.TimeoutException, another exception, or a
\* response with a status code and a body (json = <<>>: not decodable as JSON)
Responses ==
    { [ kind |-> "timeout", status_code |-> 0, json |-> <<>> ],
      [ kind |-> "error", status_code |-> 0, json |-> <<>> ],
      [ kind |-> "http", status_code |-> 500, json |-> <<>> ],
      [ kind |-> "http", status_code |-> 429, json |-> << MockRapidapiResponse >> ],
      [ kind |-> "http", status_code |-> 200, json |-> <<>> ] }
    \cup { [ kind |-> "http", status_code |-> 200, json |-> << d >> ] : d \in Payloads }

(***************************************************************************)
(* SkinAnalysisService.analyze_skin, one call at a time                    *)
(***************************************************************************)
SvcInit ==
    /\ rapidapi_key \in ApiKeys
    /\ hashSeed \in 0..MaxHashSeed
    /\ pc = "idle"
    /\ image_url = None
    /\ image_base64 = None
    /\ response = NoResponse
    /\ api_result = <<>>
    /\ result = <<>>
    /\ raised = FALSE
    /\ providerCalls = 0
    /\ localRuns = 0
    /\ localOutcome = "not_run"

\* a caller invokes analyze_skin(image_url, image_base64)
AnalyzeSkinCall ==
    /\ pc = "idle"
    /\ \E u \in ImageUrls, b \in ImageBase64s :
          /\ image_url' = u
          /\ image_base64' = b
    /\ pc' = "try"
    /\ response' = NoResponse
    /\ api_result' = <<>>
    /\ result' = <<>>
    /\ raised' = FALSE
    /\ providerCalls' = 0
    /\ localRuns' = 0
    /\ localOutcome' = "not_run"
    /\ UNCHANGED <<rapidapi_key, hashSeed>>
    /\ UNCHANGED otherThanSvc

\* if self.rapidapi_key:
UseProvider(key) == Truthy(key)

AnalyzeSkinTry ==
    /\ pc = "try"
    /\ pc' = IF UseProvider(rapidapi_key) THEN "rapidapi" ELSE "local"
    /\ UNCHANGED <<rapidapi_key, hashSeed, image_url, image_base64, response,
                   api_result, result, raised, providerCalls, localRuns, localOutcome>>
    /\ UNCHANGED otherThanSvc

HasImageUrlOnly(url, b64) == Truthy(url)

\* _analyze_with_rapidapi builds its payload, or returns None without an image
HasImage(url, b64) == Truthy(url) \/ Truthy(b64)

RapidapiBuildPayload ==
    /\ pc = "rapidapi"
    /\ pc' = IF HasImage(image_url, image_base64) THEN "post" ELSE "returned"
    /\ api_result' = <<>>
    /\ UNCHANGED <<rapidapi_key, hashSeed, image_url, image_base64, response,
                   result, raised, providerCalls, localRuns, localOutcome>>
    /\ UNCHANGED otherThanSvc

\* the body of the try block of _analyze_with_rapidapi for a provider outcome:
\* what it returns, or that it raises
RapidapiAttempt(r, seed) ==
    IF r.kind # "http" THEN [ raises |-> TRUE, value |-> <<>> ]
    ELSE IF r.status_code = 200
         THEN IF r.json = <<>> THEN [ raises |-> TRUE, value |-> <<>> ]
              ELSE IF ParseRaises(r.json[1], seed)
                   THEN [ raises |-> TRUE, value |-> <<>> ]
                   ELSE [ raises |-> FALSE, value |-> ParseRapidapiResponse(r.json[1], seed) ]
         ELSE [ raises |-> FALSE, value |-> <<>> ]

RapidapiExceptPropagates(attempt) == attempt

\* except httpx.TimeoutException / except Exception: return None
RapidapiExcept(attempt) ==
    IF attempt.raises THEN [ raises |-> FALSE, value |-> <<>> ] ELSE attempt

RapidapiPost ==
    /\ pc = "post"
    /\ providerCalls' = providerCalls + 1
    /\ \E r \in Responses :
          /\ response' = r
          /\ LET out == RapidapiExcept(RapidapiAttempt(r, hashSeed))
             IN  /\ api_result' = out.value
                 /\ pc' = IF out.raises THEN "except" ELSE "returned"
    /\ UNCHANGED <<rapidapi_key, hashSeed, image_url, image_base64, result, raised,
                   localRuns, localOutcome>>
    /\ UNCHANGED otherThanSvc

\* if result: return result
AnalyzeSkinCheckResult ==
    /\ pc = "returned"
    /\ IF api_result # <<>>
       THEN /\ result' = api_result
            /\ pc' = "done"
       ELSE /\ result' = result
            /\ pc' = "local"
    /\ UNCHANGED <<rapidapi_key, hashSeed, image_url, image_base64, response,
                   api_result, raised, providerCalls, localRuns, localOutcome>>
    /\ UNCHANGED otherThanSvc

\* return await self._analyze_locally(...): it returns its result or raises
AnalyzeSkinLocal ==
    /\ pc = "local"
    /\ localRuns' = localRuns + 1
    /\ \E o \in { "ok", "raises" } :
          /\ localOutcome' = o
          /\ IF o = "ok"
             THEN /\ result' = << LocalResult >>
                  /\ pc' = "done"
             ELSE /\ result' = result
                  /\ pc' = "except"
    /\ UNCHANGED <<rapidapi_key, hashSeed, image_url, image_base64, response,
                   api_result, raised, providerCalls>>
    /\ UNCHANGED otherThanSvc

AnalyzeSkinExceptReraises == [ value |-> <<>>, raised |-> TRUE ]

\* except Exception: return self._get_fallback_result()
AnalyzeSkinExceptValue == [ value |-> << FallbackResult >>, raised |-> FALSE ]

AnalyzeSkinExcept ==
    /\ pc = "except"
    /\ result' = AnalyzeSkinExceptValue.value
    /\ raised' = AnalyzeSkinExceptValue.raised
    /\ pc' = "done"
    /\ UNCHANGED <<rapidapi_key, hashSeed, image_url, image_base64, response,
                   api_result, providerCalls, localRuns, localOutcome>>
    /\ UNCHANGED otherThanSvc

\* the caller has the outcome; the service is ready for the next call
AnalyzeSkinReturn ==
    /\ pc = "done"
    /\ pc' = "idle"
    /\ image_url' = None
    /\ image_base64' = None
    /\ response' = NoResponse
    /\ api_result' = <<>>
    /\ result' = <<>>
    /\ raised' = FALSE
    /\ providerCalls' = 0
    /\ localRuns' = 0
    /\ localOutcome' = "not_run"
    /\ UNCHANGED <<rapidapi_key, hashSeed>>
    /\ UNCHANGED otherThanSvc

SvcNext ==
    \/ AnalyzeSkinCall
    \/ AnalyzeSkinTry
    \/ RapidapiBuildPayload
    \/ RapidapiPost
    \/ AnalyzeSkinCheckResult
    \/ AnalyzeSkinLocal
    \/ AnalyzeSkinExcept
    \/ AnalyzeSkinReturn

(***************************************************************************)
(* _score_to_severity applied to the scores of a bounded range             *)
(***************************************************************************)
MaxScore == 100
Scores == 0..MaxScore

SevInit ==
    /\ sevScore \in Scores
    /\ sevLabel = "unset"

\* severity = self._score_to_severity(score)
ScoreToSeverityCall ==
    /\ sevLabel = "unset"
    /\ sevLabel' = ScoreToSeverity(sevScore)
    /\ UNCHANGED sevScore
    /\ UNCHANGED otherThanSev

\* the next score is converted
ScoreToSeverityNext ==
    /\ sevLabel # "unset"
    /\ sevScore' \in Scores
    /\ sevLabel' = "unset"
    /\ UNCHANGED otherThanSev

SevNext ==
    \/ ScoreToSeverityCall
    \/ ScoreToSeverityNext

(***************************************************************************)
(* ImageQualityChecker.check_quality and SkinAnalyzer.analyze              *)
(***************************************************************************)
\* ImageQualityChecker.__init__
min_resolution == << 640, 480 >>
min_brightness == 40
max_brightness == 220
min_sharpness == 100

\* An image, by what check_quality measures of it: its size, the mean of its
\* pixel values (0..255) and the variance of its Laplacian.
Images ==
    [ width : { 639, 640, 1280 },
      height : { 479, 480 },
      brightness : { 39, 40, 128, 220, 221 },
      sharpness : { 99, 100, 101 } ]

NoImage == [ width |-> 0, height |-> 0, brightness |-> 0, sharpness |-> 0 ]

QualityDict(sharpness_ok, resolution_ok, lighting_ok, overall) ==
    [ in_focus |-> sharpness_ok,
      detected |-> resolution_ok,
      clear |-> lighting_ok,
      overall_quality |-> overall ]

\* check_quality with the resolution left out of the aggregate
CheckQualityNoResolution(image) ==
    LET resolution_ok == image.width >= min_resolution[1]
                         /\ image.height >= min_resolution[2]
        lighting_ok == min_brightness <= image.brightness
                       /\ image.brightness <= max_brightness
        sharpness_ok == image.sharpness >= min_sharpness
    IN  QualityDict(sharpness_ok, resolution_ok, lighting_ok,
                    sharpness_ok /\ lighting_ok)

\* ImageQualityChecker.check_quality
CheckQuality(image) ==
    LET resolution_ok == image.width >= min_resolution[1]
                         /\ image.height >= min_resolution[2]
        lighting_ok == min_brightness <= image.brightness
                       /\ image.brightness <= max_brightness
        sharpness_ok == image.sharpness >= min_sharpness
    IN  QualityDict(sharpness_ok, resolution_ok, lighting_ok,
                    sharpness_ok /\ resolution_ok /\ lighting_ok)

AnInit ==
    /\ anPc = "idle"
    /\ anImage = NoImage
    /\ validate_quality = TRUE
    /\ quality = <<>>
    /\ anSteps = <<>>
    /\ anOutcome = "none"
    /\ anError = <<>>

\* a caller invokes analyze(image, validate_quality)
AnalyzeCall ==
    /\ anPc = "idle"
    /\ anImage' \in Images
    /\ validate_quality' \in BOOLEAN
    /\ anPc' = "quality"
    /\ quality' = <<>>
    /\ anSteps' = <<>>
    /\ anOutcome' = "none"
    /\ anError' = <<>>
    /\ UNCHANGED otherThanAn

QualityGateNeverRejects(q) == FALSE

\* if not quality['overall_quality']: raise ValueError(...)
QualityGateRejects(q) == ~q.overall_quality

\* Step 1: the quality check; a rejected image raises
\* ValueError(f"Image quality check failed: {quality}")
AnalyzeQualityCheck ==
    /\ anPc = "quality"
    /\ IF validate_quality
       THEN LET q == CheckQuality(anImage)
            IN  /\ quality' = << q >>
                /\ anSteps' = Append(anSteps, "check_quality")
                /\ IF QualityGateRejects(q)
                   THEN /\ anOutcome' = "raised"
                        /\ anError' = << q >>
                        /\ anPc' = "done"
                   ELSE /\ anPc' = "preprocess"
                        /\ UNCHANGED <<anOutcome, anError>>
       ELSE /\ anPc' = "preprocess"
            /\ UNCHANGED <<quality, anSteps, anOutcome, anError>>
    /\ UNCHANGED <<anImage, validate_quality>>
    /\ UNCHANGED otherThanAn

\* Step 2: input_tensor = self.transform(image).unsqueeze(0).to(self.device)
AnalyzePreprocess ==
    /\ anPc = "preprocess"
    /\ anSteps' = Append(anSteps, "transform")
    /\ anPc' = "inference"
    /\ UNCHANGED <<anImage, validate_quality, quality, anOutcome, anError>>
    /\ UNCHANGED otherThanAn

\* Step 3: outputs = self.model(input_tensor)
AnalyzeInference ==
    /\ anPc = "inference"
    /\ anSteps' = Append(anSteps, "model")
    /\ anPc' = "process"
    /\ UNCHANGED <<anImage, validate_quality, quality, anOutcome, anError>>
    /\ UNCHANGED otherThanAn

\* Step 4: return self._process_outputs(outputs)
AnalyzeProcessOutputs ==
    /\ anPc = "process"
    /\ anSteps' = Append(anSteps, "process_outputs")
    /\ anOutcome' = "returned"
    /\ anPc' = "done"
    /\ UNCHANGED <<anImage, validate_quality, quality, anError>>
    /\ UNCHANGED otherThanAn

\* the caller has the outcome
AnalyzeReturn ==
    /\ anPc = "done"
    /\ anPc' = "idle"
    /\ anImage' = NoImage
    /\ validate_quality' = TRUE
    /\ quality' = <<>>
    /\ anSteps' = <<>>
    /\ anOutcome' = "none"
    /\ anError' = <<>>
    /\ UNCHANGED otherThanAn

AnNext ==
    \/ AnalyzeCall
    \/ AnalyzeQualityCheck
    \/ AnalyzePreprocess
    \/ AnalyzeInference
    \/ AnalyzeProcessOutputs
    \/ AnalyzeReturn

(***************************************************************************)
(* Face location: detect_face_3d (face_detection_service.py) and           *)
(* FaceDetector.detect_faces / detect_and_align (face_detector.py)         *)
(***************************************************************************)
\* the size (width, height) of the decoded image
ImageSize == << 640, 480 >>

\* the raw detections (x, y, w, h) the cascade can report in the image
CandidateFaces ==
    { << 0, 0, 110, 110 >>,
      << 100, 100, 100, 100 >>,
      << 300, 50, 120, 130 >>,
      << 400, 300, 100, 100 >>,
      << 520, 360, 120, 120 >> }

MaxFaces == 3

FaceLists == UNION { [ 1..n -> CandidateFaces ] : n \in 0..MaxFaces }

\* max(seq, key=...): the index of the first element with the largest key
ArgMaxFirst(keys) ==
    CHOOSE i \in 1..Len(keys) :
        /\ \A j \in 1..Len(keys) : keys[j] <= keys[i]
        /\ \A j \in 1..(i - 1) : keys[j] < keys[i]

\* the first detection, whatever its size
PrimaryFace3DFirst(fs) == fs[1]

\* max(faces, key=lambda f: f[2] * f[3])
PrimaryFace3D(fs) == fs[ArgMaxFirst([ i \in 1..Len(fs) |-> fs[i][3] * fs[i][4] ])]

\* Face3DData(detected=False, num_faces=0) with the dataclass defaults
Face3DDefault ==
    [ detected |-> FALSE,
      num_faces |-> 0,
      landmarks |-> <<>>,
      face_bounding_box |-> <<>>,
      head_pose |-> <<>>,
      face_width_ratio |-> <<>>,
      face_height_ratio |-> <<>>,
      landmark_count |-> 0,
      eye_aspect_ratio |-> <<>>,
      mouth_aspect_ratio |-> <<>>,
      is_frontal |-> FALSE,
      quality_score |-> 0,
      image_size |-> << 0, 0 >> ]

\* What face_mesh.process can end in: an exception, no face, or a landmark
\* list.  A landmark list is given by its length and by the angles (degrees)
\* and the eye aspect ratio (hundredths) that the landmark formulas yield on it.
MeshOutcomes ==
    { [ kind |-> k, count |-> 0, yaw |-> 0, pitch |-> 0, roll |-> 0, ear |-> 0 ] :
        k \in { "raises", "no_face" } }
    \cup [ kind : { "landmarks" }, count : { 100, 478 }, yaw : { 0, 25, 0 - 30 },
           pitch : { 0, 20 }, roll : { 0 }, ear : { 5, 10 } ]

ExpectedLandmarks == 468

\* _calculate_head_pose
CalculateHeadPose(lm) ==
    IF lm.count = 0 \/ lm.count < ExpectedLandmarks
    THEN [ yaw |-> 0, pitch |-> 0, roll |-> 0 ]
    ELSE [ yaw |-> lm.yaw, pitch |-> lm.pitch, roll |-> lm.roll ]

\* _calculate_eye_aspect_ratio
CalculateEyeAspectRatio(lm) ==
    IF lm.count = 0 \/ lm.count < ExpectedLandmarks THEN 0 ELSE lm.ear

Abs(n) == IF n < 0 THEN 0 - n ELSE n

yaw_threshold == 25
pitch_threshold == 20

\* the fields set from a landmark list, with the pose at a threshold still
\* counted as frontal
WithLandmarksInclusive(r, lm) ==
    LET head_pose == CalculateHeadPose(lm)
        ear == CalculateEyeAspectRatio(lm)
        is_frontal == Abs(head_pose.yaw) <= yaw_threshold
                      /\ Abs(head_pose.pitch) <= pitch_threshold
        q == 100 - (IF is_frontal THEN 0 ELSE 20) - (IF ear < 10 THEN 15 ELSE 0)
    IN  [ r EXCEPT !.landmarks = << lm >>,
                   !.landmark_count = lm.count,
                   !.head_pose = << head_pose >>,
                   !.eye_aspect_ratio = << ear >>,
                   !.is_frontal = is_frontal,
                   !.quality_score = Max(0, q) ]

\* the fields detect_face_3d sets from a landmark list
WithLandmarks(r, lm) ==
    LET head_pose == CalculateHeadPose(lm)
        ear == CalculateEyeAspectRatio(lm)
        is_frontal == Abs(head_pose.yaw) < yaw_threshold
                      /\ Abs(head_pose.pitch) < pitch_threshold
        q == 100 - (IF is_frontal THEN 0 ELSE 20) - (IF ear < 10 THEN 15 ELSE 0)
    IN  [ r EXCEPT !.landmarks = << lm >>,
                   !.landmark_count = lm.count,
                   !.head_pose = << head_pose >>,
                   !.eye_aspect_ratio = << ear >>,
                   !.is_frontal = is_frontal,
                   !.quality_score = Max(0, q) ]

FaceInit ==
    /\ FACE_CASCADE_LOADED \in BOOLEAN
    /\ MEDIAPIPE_LOADED \in BOOLEAN
    /\ fPc = "idle"
    /\ fFn = "none"
    /\ image_data = "none"
    /\ use_3d_mesh = TRUE
    /\ faces = <<>>
    /\ f3d = Face3DDefault
    /\ meshCalls = 0
    /\ detections = <<>>
    /\ daResult = <<>>
    /\ cropCalls = 0
    /\ resizeCalls = 0
    /\ fOutcome = "none"

\* a caller invokes detect_face_3d(image_data, use_3d_mesh=...):
\* result = Face3DData(detected=False, num_faces=0)
DetectFace3DCall ==
    /\ fPc = "idle"
    /\ fFn' = "detect_face_3d"
    /\ image_data' \in { "image", "garbage", "None" }
    /\ use_3d_mesh' \in BOOLEAN
    /\ f3d' = Face3DDefault
    /\ fPc' = "d3_decode"
    /\ UNCHANGED <<FACE_CASCADE_LOADED, MEDIAPIPE_LOADED, faces, meshCalls, detections,
                   daResult, cropCalls, resizeCalls, fOutcome>>
    /\ UNCHANGED otherThanFace

\* np.frombuffer / cv2.imdecode: bytes that do not decode give img = None and
\* the early return; image_data = None raises into the outer except, which
\* returns result as well
DetectFace3DDecode ==
    /\ fPc = "d3_decode"
    /\ IF image_data = "image"
       THEN /\ f3d' = [ f3d EXCEPT !.image_size = ImageSize ]
            /\ fPc' = "d3_cascade"
            /\ UNCHANGED fOutcome
       ELSE /\ fPc' = "done"
            /\ fOutcome' = "returned"
            /\ UNCHANGED f3d
    /\ UNCHANGED <<FACE_CASCADE_LOADED, MEDIAPIPE_LOADED, fFn, image_data, use_3d_mesh,
                   faces, meshCalls, detections, daResult, cropCalls, resizeCalls>>
    /\ UNCHANGED otherThanFace

NoFaceContinues(r) == FALSE

\* the early return taken only when the cascade is loaded
NoFaceReturnsOnlyWhenLoaded(r) == ~r.detected /\ FACE_CASCADE_LOADED

\* if not result.detected: return result
NoFaceReturns(r) == ~r.detected

\* Step 1: the cascade (or faces = [] when it is not loaded), num_faces and
\* detected, and the early return without a face.  A cv2.error of
\* detectMultiScale reaches the outer except, which returns result untouched.
DetectFace3DCascade ==
    /\ fPc = "d3_cascade"
    /\ \E fs \in FaceLists, cascade_raises \in BOOLEAN :
          /\ FACE_CASCADE_LOADED \/ (fs = <<>> /\ ~cascade_raises)
          /\ IF cascade_raises
             THEN /\ fs = <<>>
                  /\ faces' = <<>>
                  /\ fPc' = "done"
                  /\ fOutcome' = "returned"
                  /\ UNCHANGED f3d
             ELSE LET r == [ f3d EXCEPT !.num_faces = Len(fs),
                                        !.detected = Len(fs) > 0 ]
                  IN  /\ faces' = fs
                      /\ f3d' = r
                      /\ IF NoFaceReturns(r)
                         THEN /\ fPc' = "done"
                              /\ fOutcome' = "returned"
                         ELSE /\ fPc' = "d3_select"
                              /\ UNCHANGED fOutcome
    /\ UNCHANGED <<FACE_CASCADE_LOADED, MEDIAPIPE_LOADED, fFn, image_data, use_3d_mesh,
                   meshCalls, detections, daResult, cropCalls, resizeCalls>>
    /\ UNCHANGED otherThanFace

\* the largest face: if faces is not None and len(faces) > 0
DetectFace3DSelect ==
    /\ fPc = "d3_select"
    /\ IF Len(faces) > 0
       THEN LET f == PrimaryFace3D(faces)
            IN  f3d' = [ f3d EXCEPT !.face_bounding_box = << f >>,
                                    !.face_width_ratio = << f[3], f3d.image_size[1] >>,
                                    !.face_height_ratio = << f[4], f3d.image_size[2] >> ]
       ELSE f3d' = f3d
    /\ fPc' = "d3_mesh"
    /\ UNCHANGED <<FACE_CASCADE_LOADED, MEDIAPIPE_LOADED, fFn, image_data, use_3d_mesh,
                   faces, meshCalls, detections, daResult, cropCalls, resizeCalls,
                   fOutcome>>
    /\ UNCHANGED otherThanFace

\* Step 2: the 3D face mesh, when asked for and loaded; then return result
DetectFace3DMesh ==
    /\ fPc = "d3_mesh"
    /\ IF use_3d_mesh /\ MEDIAPIPE_LOADED
       THEN /\ meshCalls' = meshCalls + 1
            /\ \E m \in MeshOutcomes :
                  f3d' = IF m.kind = "raises" THEN [ f3d EXCEPT !.quality_score = 50 ]
                         ELSE IF m.kind = "landmarks" THEN WithLandmarks(f3d, m)
                         ELSE f3d
       ELSE UNCHANGED <<meshCalls, f3d>>
    /\ fPc' = "done"
    /\ fOutcome' = "returned"
    /\ UNCHANGED <<FACE_CASCADE_LOADED, MEDIAPIPE_LOADED, fFn, image_data, use_3d_mesh,
                   faces, detections, daResult, cropCalls, resizeCalls>>
    /\ UNCHANGED otherThanFace

padding_percent == 20

\* the padded box without the clamp to the image
PaddedDetectionUnclamped(f, size) ==
    LET padding == (padding_percent * Max(f[3], f[4])) \div 100
    IN  [ bbox |-> << f[1] - padding, f[2] - padding,
                      f[1] + f[3] + padding, f[2] + f[4] + padding >>,
          confidence |-> 95,
          aligned_face |-> <<>> ]

\* the FaceDetectionResult detect_faces builds for a raw detection:
\* padding = int(0.2 * max(w, h)), the box clamped to the image
PaddedDetection(f, size) ==
    LET padding == (padding_percent * Max(f[3], f[4])) \div 100
    IN  [ bbox |-> << Max(0, f[1] - padding),
                      Max(0, f[2] - padding),
                      Min(size[1], f[1] + f[3] + padding),
                      Min(size[2], f[2] + f[4] + padding) >>,
          confidence |-> 95,
          aligned_face |-> <<>> ]

\* FaceDetector.detect_faces
DetectFaces(fs, size) == [ i \in 1..Len(fs) |-> PaddedDetection(fs[i], size) ]

BBoxArea(d) == (d.bbox[3] - d.bbox[1]) * (d.bbox[4] - d.bbox[2])

\* max(faces, key=lambda f: (f.bbox[2]-f.bbox[0]) * (f.bbox[3]-f.bbox[1]))
PrimaryDetection(ds) == ds[ArgMaxFirst([ i \in 1..Len(ds) |-> BBoxArea(ds[i]) ])]

\* target_size of FaceDetector.__init__
target_size == << 224, 224 >>

\* a caller invokes detect_and_align(image): faces = self.detect_faces(image)
DetectAndAlignCall ==
    /\ fPc = "idle"
    /\ fFn' = "detect_and_align"
    /\ \E fs \in FaceLists :
          /\ faces' = fs
          /\ detections' = DetectFaces(fs, ImageSize)
    /\ daResult' = <<>>
    /\ fPc' = "da_select"
    /\ UNCHANGED <<FACE_CASCADE_LOADED, MEDIAPIPE_LOADED, image_data, use_3d_mesh, f3d,
                   meshCalls, cropCalls, resizeCalls, fOutcome>>
    /\ UNCHANGED otherThanFace

\* if not faces: return None; else the largest face, cropped and resized
DetectAndAlignSelect ==
    /\ fPc = "da_select"
    /\ IF detections = <<>>
       THEN /\ daResult' = <<>>
            /\ UNCHANGED <<cropCalls, resizeCalls>>
       ELSE /\ daResult' = << [ PrimaryDetection(detections)
                                 EXCEPT !.aligned_face = << target_size >> ] >>
            /\ cropCalls' = cropCalls + 1
            /\ resizeCalls' = resizeCalls + 1
    /\ fPc' = "done"
    /\ fOutcome' = "returned"
    /\ UNCHANGED <<FACE_CASCADE_LOADED, MEDIAPIPE_LOADED, fFn, image_data, use_3d_mesh,
                   faces, f3d, meshCalls, detections>>
    /\ UNCHANGED otherThanFace

\* the caller has the outcome
FaceReturn ==
    /\ fPc = "done"
    /\ fPc' = "idle"
    /\ fFn' = "none"
    /\ image_data' = "none"
    /\ use_3d_mesh' = TRUE
    /\ faces' = <<>>
    /\ f3d' = Face3DDefault
    /\ meshCalls' = 0
    /\ detections' = <<>>
    /\ daResult' = <<>>
    /\ cropCalls' = 0
    /\ resizeCalls' = 0
    /\ fOutcome' = "none"
    /\ UNCHANGED <<FACE_CASCADE_LOADED, MEDIAPIPE_LOADED>>
    /\ UNCHANGED otherThanFace

FaceNext ==
    \/ DetectFace3DCall
    \/ DetectFace3DDecode
    \/ DetectFace3DCascade
    \/ DetectFace3DSelect
    \/ DetectFace3DMesh
    \/ DetectAndAlignCall
    \/ DetectAndAlignSelect
    \/ FaceReturn

(***************************************************************************)
(* _generate_recommendations applied to bounded concern lists              *)
(***************************************************************************)
\* the concern types of the lists: five types of the table and one the table
\* does not know
RecConcernTypes ==
    { "acne", "wrinkles", "dark_spots", "dark_circles", "pores", "eczema" }

MaxConcerns == 5

\* SkinConcern(concern_type=t, ...)
ConcernOfType(t) ==
    [ concern_type |-> t,
      severity |-> "mild",
      confidence |-> 80,
      affected_area |-> None,
      recommendations |-> Get(concern_recommendations, t, <<>>) ]

ConcernLists ==
    UNION { [ 1..n -> { ConcernOfType(t) : t \in RecConcernTypes } ] : n \in 0..MaxConcerns }

RecInit ==
    /\ recConcerns \in { cs \in ConcernLists : Len(cs) <= 1 }
    /\ recOut = <<>>

\* recommendations = self._generate_recommendations(concerns)
GenerateRecommendationsCall ==
    /\ recOut = <<>>
    /\ recOut' = << GenerateRecommendations(recConcerns, hashSeed) >>
    /\ UNCHANGED recConcerns
    /\ UNCHANGED otherThanRec

\* the next concern list: one more detected concern
GenerateRecommendationsNext ==
    /\ recOut # <<>>
    /\ Len(recConcerns) < MaxConcerns
    /\ \E t \in RecConcernTypes : recConcerns' = Append(recConcerns, ConcernOfType(t))
    /\ recOut' = <<>>
    /\ UNCHANGED otherThanRec

RecNext ==
    \/ GenerateRecommendationsCall
    \/ GenerateRecommendationsNext

(***************************************************************************)
(* _calculate_overall_score applied to bounded metrics and concern lists   *)
(***************************************************************************)
\* SkinMetrics with the fields in tenths of a point (0.0 .. 100.0)
ScoredMetrics ==
    { SkinMetrics(h, o, t, e, p, s) :
        h \in { 0, 333, 1000 }, o \in { 0, 1000 }, t \in { 0, 647, 1000 },
        e \in { 0, 1000 }, p \in { 0, 505 }, s \in { 0, 1000 } }

\* the severity labels of the concerns: the five levels and one other string
ScoredSeverities == Range(SeverityLevels) \cup { "extreme" }

MaxScoredConcerns == 3

\* SkinConcern(concern_type="acne", severity=sev, ...)
ConcernOfSeverity(sev) == [ ConcernOfType("acne") EXCEPT !.severity = sev ]

ScoreInit ==
    /\ osMetrics \in ScoredMetrics
    /\ osConcerns \in { <<>> } \cup { << ConcernOfSeverity(sev) >> : sev \in ScoredSeverities }
    /\ osScore = <<>>

\* score = self._calculate_overall_score(concerns, metrics)
CalculateOverallScoreCall ==
    /\ osScore = <<>>
    /\ osScore' = << CalculateOverallScoreIn(10, osConcerns, osMetrics) >>
    /\ UNCHANGED <<osMetrics, osConcerns>>
    /\ UNCHANGED otherThanScore

\* the next concern list: one more detected concern
CalculateOverallScoreNext ==
    /\ osScore # <<>>
    /\ Len(osConcerns) < MaxScoredConcerns
    /\ \E sev \in ScoredSeverities :
          osConcerns' = Append(osConcerns, ConcernOfSeverity(sev))
    /\ osScore' = <<>>
    /\ UNCHANGED osMetrics
    /\ UNCHANGED otherThanScore

ScoreNext ==
    \/ CalculateOverallScoreCall
    \/ CalculateOverallScoreNext

(***************************************************************************)
(* SkinAnalyzer._calculate_risk_level applied to bounded concern dicts     *)
(***************************************************************************)
\* list(SkinConcern)
concern_labels ==
    << "acne", "wrinkles", "dark_spots", "redness", "dryness", "oiliness",
       "large_pores", "uneven_texture", "dark_circles", "hyperpigmentation",
       "dehydration", "sensitivity" >>

\* the values of RiskLevel
RiskLevels == { "low", "moderate", "high", "critical" }

\* the confidences of the dicts, in hundredths: at and next to each threshold
RiskConfidences == { 31, 70, 71, 90, 91 }

MaxRiskConcerns == 6

\* max(concerns.values())
RECURSIVE MaxOfSet(_)
MaxOfSet(S) ==
    LET x == CHOOSE y \in S : TRUE
    IN  IF S = { x } THEN x ELSE Max(x, MaxOfSet(S \ { x }))

\* the moderate test made before the high test
CalculateRiskLevelModerateFirst(concerns) ==
    IF DOMAIN concerns = {} THEN "low"
    ELSE LET max_confidence == MaxOfSet({ concerns[k] : k \in DOMAIN concerns })
             num_concerns == Cardinality(DOMAIN concerns)
         IN  IF max_confidence > 70 \/ num_concerns > 3 THEN "moderate"
             ELSE IF max_confidence > 90 \/ num_concerns > 5 THEN "high"
             ELSE "low"

\* _calculate_risk_level
CalculateRiskLevel(concerns) ==
    IF DOMAIN concerns = {} THEN "low"
    ELSE LET max_confidence == MaxOfSet({ concerns[k] : k \in DOMAIN concerns })
             num_concerns == Cardinality(DOMAIN concerns)
         IN  IF max_confidence > 90 \/ num_concerns > 5 THEN "high"
             ELSE IF max_confidence > 70 \/ num_concerns > 3 THEN "moderate"
             ELSE "low"

RiskInit ==
    /\ rlConcerns = EmptyDict
    /\ rlLevel = "unset"

\* risk_level = self._calculate_risk_level(concerns)
CalculateRiskLevelCall ==
    /\ rlLevel = "unset"
    /\ rlLevel' = CalculateRiskLevel(rlConcerns)
    /\ UNCHANGED rlConcerns
    /\ UNCHANGED otherThanRisk

\* the next dict: one more concern, the next of concern_labels
CalculateRiskLevelNext ==
    /\ rlLevel # "unset"
    /\ Cardinality(DOMAIN rlConcerns) < MaxRiskConcerns
    /\ \E c \in RiskConfidences :
          rlConcerns' =
              rlConcerns @@ (concern_labels[Cardinality(DOMAIN rlConcerns) + 1] :> c)
    /\ rlLevel' = "unset"
    /\ UNCHANGED otherThanRisk

RiskNext ==
    \/ CalculateRiskLevelCall
    \/ CalculateRiskLevelNext

(***************************************************************************)
(* SkinAnalysis.primary_concern applied to bounded concern lists           *)
(***************************************************************************)
\* the dicts of detected_concerns: severity and confidence may be missing, and
\* the severity may be a string severity_order does not know
ConcernDicts ==
    { t @@ s @@ c :
        t \in { "concern_type" :> "acne", "concern_type" :> "wrinkles" },
        s \in { EmptyDict, "severity" :> "mild", "severity" :> "severe",
                "severity" :> "extreme" },
        c \in { EmptyDict, "confidence" :> 90 } }

MaxDetectedConcerns == 3

\* severity_order.get(severity, 0)
SeverityOrder(severity) ==
    CASE severity = "very_severe" -> 4
      [] severity = "severe" -> 3
      [] severity = "moderate" -> 2
      [] severity = "mild" -> 1
      [] severity = "none" -> 0
      [] OTHER -> 0

\* the key of the sort: (severity_order.get(x.get("severity", "none"), 0),
\* x.get("confidence", 0))
SortKey(x) == << SeverityOrder(Get(x, "severity", "none")), Get(x, "confidence", 0) >>

\* a < b for two keys (tuple comparison)
KeyLess(a, b) == a[1] < b[1] \/ (a[1] = b[1] /\ a[2] < b[2])

\* x put into a list sorted by descending key, after the elements whose key
\* is not smaller: elements with equal keys keep the order of their insertion
RECURSIVE InsertDescending(_, _)
InsertDescending(x, sorted) ==
    IF sorted = <<>> THEN << x >>
    ELSE IF KeyLess(SortKey(Head(sorted)), SortKey(x))
         THEN << x >> \o sorted
         ELSE << Head(sorted) >> \o InsertDescending(x, Tail(sorted))

\* sorted(s, key=..., reverse=True): stable, equal keys keep their order
RECURSIVE SortedDescending(_)
SortedDescending(s) ==
    IF s = <<>> THEN <<>>
    ELSE InsertDescending(s[Len(s)], SortedDescending(SubSeq(s, 1, Len(s) - 1)))

\* self.detected_concerns or []: the stored list, empty for None
StoredConcerns(concerns) == IF concerns = <<>> THEN <<>> ELSE concerns[1]

\* the sort taken without reverse=True: the first element has the least key
PrimaryConcernOfAscending(concerns) ==
    IF StoredConcerns(concerns) = <<>> THEN <<>>
    ELSE << Reverse(SortedDescending(Reverse(StoredConcerns(concerns))))[1] >>

\* the property primary_concern
PrimaryConcern(concerns) ==
    IF StoredConcerns(concerns) = <<>> THEN <<>>
    ELSE << SortedDescending(StoredConcerns(concerns))[1] >>

PrimInit ==
    /\ detected_concerns \in { <<>>, << <<>> >> }
    /\ primaryEvaluated = FALSE
    /\ primary = <<>>

\* analysis.primary_concern
PrimaryConcernGet ==
    /\ ~primaryEvaluated
    /\ primary' = PrimaryConcern(detected_concerns)
    /\ primaryEvaluated' = TRUE
    /\ UNCHANGED detected_concerns
    /\ UNCHANGED otherThanPrim

\* one more concern is stored in the column
PrimaryConcernNext ==
    /\ primaryEvaluated
    /\ Len(StoredConcerns(detected_concerns)) < MaxDetectedConcerns
    /\ \E d \in ConcernDicts :
          detected_concerns' = << Append(StoredConcerns(detected_concerns), d) >>
    /\ primaryEvaluated' = FALSE
    /\ primary' = <<>>
    /\ UNCHANGED otherThanPrim

PrimNext ==
    \/ PrimaryConcernGet
    \/ PrimaryConcernNext

(***************************************************************************)
(* Concurrent invocations of analyze_skin on the singleton service.  The   *)
(* coroutines run on one event loop: an invocation runs without            *)
(* interruption up to its await of client.post, and again from the         *)
(* provider's answer to its return.                                        *)
(***************************************************************************)
MaxInFlight == 2

CallIds == 1..MaxInFlight

\* the (image_url, image_base64) pairs of the concurrent invocations
ConcurrentArguments ==
    { << None, None >>, << "https://example.com/face.jpg", None >>, << None, "aGVsbG8=" >> }

\* the provider outcomes of the concurrent invocations
ConcurrentResponses ==
    { [ kind |-> "timeout", status_code |-> 0, json |-> <<>> ],
      [ kind |-> "http", status_code |-> 500, json |-> <<>> ],
      [ kind |-> "http", status_code |-> 200, json |-> << MockRapidapiResponse >> ],
      [ kind |-> "http", status_code |-> 200, json |-> << "skin_type" :> "oily" >> ],
      [ kind |-> "http", status_code |-> 200,
        json |-> << "hydration" :> [ score |-> 150 ] >> ] }

\* an invocation that is not running
IdleCall ==
    [ pc |-> "idle", image_url |-> None, image_base64 |-> None, response |-> NoResponse,
      localOutcome |-> "not_run", result |-> <<>>, raised |-> FALSE ]

\* what analyze_skin does from `if result:` on, for the value
\* _analyze_with_rapidapi returned and the way _analyze_locally ends
AnalyzeSkinFinish(api_value, local_outcome) ==
    IF api_value # <<>> THEN [ value |-> api_value, raised |-> FALSE ]
    ELSE IF local_outcome = "ok" THEN [ value |-> << LocalResult >>, raised |-> FALSE ]
    ELSE AnalyzeSkinExceptValue

\* the response another invocation holds
ResponseOfFirstCall(c, i) == c[1].response

\* response = await client.post(...): a local of the invocation's coroutine
ResponseOfCall(c, i) == c[i].response

ConInit ==
    /\ timeout = 30
    /\ recommendation_table = concern_recommendations
    /\ calls = [ i \in CallIds |-> IdleCall ]

\* invocation i starts and runs to its first suspension: the await of
\* client.post when the provider is used and there is an image, otherwise to
\* its return through the local analyzer
ConcurrentCall(i) ==
    /\ calls[i].pc = "idle"
    /\ \E a \in ConcurrentArguments, o \in { "ok", "raises" } :
          IF UseProvider(rapidapi_key) /\ HasImage(a[1], a[2])
          THEN /\ o = "ok"
               /\ calls' = [ calls EXCEPT ![i] =
                               [ IdleCall EXCEPT !.pc = "post", !.image_url = a[1],
                                                 !.image_base64 = a[2] ] ]
          ELSE LET fin == AnalyzeSkinFinish(<<>>, o)
               IN  calls' = [ calls EXCEPT ![i] =
                                [ IdleCall EXCEPT !.pc = "done", !.image_url = a[1],
                                                  !.image_base64 = a[2],
                                                  !.localOutcome = o,
                                                  !.result = fin.value,
                                                  !.raised = fin.raised ] ]
    /\ UNCHANGED <<timeout, recommendation_table>>
    /\ UNCHANGED otherThanCon

\* the provider answers invocation i, which runs on to its return
ConcurrentResponse(i) ==
    /\ calls[i].pc = "post"
    /\ \E r \in ConcurrentResponses, o \in { "ok", "raises" } :
          LET received == [ calls EXCEPT ![i].response = r ]
              out == RapidapiExcept(RapidapiAttempt(ResponseOfCall(received, i), hashSeed))
              fin == AnalyzeSkinFinish(out.value, o)
          IN  /\ out.value # <<>> => o = "ok"
              /\ calls' = [ received EXCEPT ![i].pc = "done",
                                            ![i].localOutcome =
                                                IF out.value # <<>> THEN "not_run" ELSE o,
                                            ![i].result = fin.value,
                                            ![i].raised = fin.raised ]
    /\ UNCHANGED <<timeout, recommendation_table>>
    /\ UNCHANGED otherThanCon

\* the caller of invocation i has its result
ConcurrentReturn(i) ==
    /\ calls[i].pc = "done"
    /\ calls' = [ calls EXCEPT ![i] = IdleCall ]
    /\ UNCHANGED <<timeout, recommendation_table>>
    /\ UNCHANGED otherThanCon

ConNext ==
    \/ \E i \in CallIds : ConcurrentCall(i)
    \/ \E i \in CallIds : ConcurrentResponse(i)
    \/ \E i \in CallIds : ConcurrentReturn(i)

(***************************************************************************)
(* _calculate_head_pose applied to bounded landmark lists.  Coordinates    *)
(* are normalised to [0, 1] and modelled in halves; angles are in whole    *)
(* degrees (rounded).                                                      *)
(***************************************************************************)
\* the number 1 of `abs(dx) + 1`, in the unit of the coordinates
CoordinateOne == 2

\* the coordinate pairs (x, y) of a landmark
LandmarkPoints == { << x, y >> : x \in 0..CoordinateOne, y \in 0..CoordinateOne }

\* the landmark lists: the length and the points at the indices 1, 33, 263,
\* 61 and 291
LandmarkLists ==
    [ count : { 0, 100, 468, 478 },
      nose : LandmarkPoints,
      left_eye : LandmarkPoints,
      right_eye : LandmarkPoints,
      left_mouth : { << 0, 2 >>, << 1, 2 >> },
      right_mouth : { << 1, 2 >>, << 2, 2 >> } ]

\* arctan(num / den) in whole degrees, for the ratios the points can form
ArctanTable ==
    { << 0, 1, 0 >>, << 1, 8, 7 >>, << 1, 6, 9 >>, << 1, 4, 14 >>, << 1, 3, 18 >>,
      << 3, 8, 21 >>, << 1, 2, 27 >>, << 2, 3, 34 >>, << 3, 4, 37 >>, << 1, 1, 45 >>,
      << 2, 1, 63 >> }

\* arctan(a / b) in degrees for a >= 0, b > 0
ArctanDeg(a, b) == (CHOOSE e \in ArctanTable : a * e[2] = b * e[1])[3]

\* np.degrees(np.arctan2(y, x))
Atan2Deg(y, x) ==
    IF x > 0 THEN (IF y >= 0 THEN ArctanDeg(y, x) ELSE 0 - ArctanDeg(0 - y, x))
    ELSE IF x = 0 THEN (IF y > 0 THEN 90 ELSE IF y < 0 THEN 0 - 90 ELSE 0)
    ELSE IF y >= 0 THEN 180 - ArctanDeg(y, 0 - x)
    ELSE ArctanDeg(0 - y, 0 - x) - 180

\* _calculate_head_pose; the eye and mouth centres are halves of sums, so
\* both arguments of the pitch and yaw arctangents are taken doubled
HeadPose(landmarks) ==
    IF landmarks.count = 0 \/ landmarks.count < ExpectedLandmarks
    THEN [ yaw |-> 0, pitch |-> 0, roll |-> 0 ]
    ELSE LET nose_2d == landmarks.nose
             left_eye == landmarks.left_eye
             right_eye == landmarks.right_eye
             left_mouth == landmarks.left_mouth
             right_mouth == landmarks.right_mouth
             dx == right_eye[1] - left_eye[1]
             dy == right_eye[2] - left_eye[2]
             roll == Atan2Deg(dy, dx)
             nose_to_eye2 == 2 * nose_2d[2] - (left_eye[2] + right_eye[2])
             pitch == Atan2Deg(nose_to_eye2, 2 * (Abs(dx) + CoordinateOne))
             nose_to_mouth_x2 == 2 * nose_2d[1] - (left_mouth[1] + right_mouth[1])
             yaw == Atan2Deg(nose_to_mouth_x2, 2 * (Abs(dy) + CoordinateOne))
         IN  [ yaw |-> yaw, pitch |-> pitch, roll |-> roll ]

HeadPoseInit ==
    /\ hpLandmarks \in LandmarkLists
    /\ hpPose = <<>>

\* result.head_pose = _calculate_head_pose(landmarks_list)
CalculateHeadPoseCall ==
    /\ hpPose = <<>>
    /\ hpPose' = << HeadPose(hpLandmarks) >>
    /\ UNCHANGED hpLandmarks
    /\ UNCHANGED otherThanHeadPose

\* the next landmark list: the same points in a list of another length
CalculateHeadPoseNext ==
    /\ hpPose # <<>>
    /\ \E n \in { 0, 100, 468, 478 } : hpLandmarks' = [ hpLandmarks EXCEPT !.count = n ]
    /\ hpPose' = <<>>
    /\ UNCHANGED otherThanHeadPose

HeadPoseNext ==
    \/ CalculateHeadPoseCall
    \/ CalculateHeadPoseNext

(***************************************************************************)
(* FaceDetector.extract_skin_regions applied to bounded face crops.  A     *)
(* region is the window it is sliced at: rows << from, to >> and cols      *)
(* << from, to >>, in pixels of the crop.                                  *)
(***************************************************************************)
\* the heights and widths of the crops
CropSizes == { 1, 2, 10, 20, 90, 100, 132, 140, 180, 224 }

\* the products n * (pct / 100) that the float multiplication leaves just
\* below the whole number: 90 * 0.7 and 180 * 0.35 are 62.99999999999999
FloatBelowWhole == { << 90, 70 >>, << 180, 35 >> }

\* int(n * f) for the float f = pct / 100
IntOfProduct(n, pct) ==
    IF << n, pct >> \in FloatBelowWhole
    THEN (n * pct) \div 100 - 1
    ELSE (n * pct) \div 100

\* a slice a[r0:r1, c0:c1]
Window(r0, r1, c0, c1) == [ rows |-> << r0, r1 >>, cols |-> << c0, c1 >> ]

\* regions = SkinRegions(forehead=face_crop[0:int(h*0.3), ...], ...)
SkinRegions(h, w) ==
    [ forehead |-> Window(0, IntOfProduct(h, 30), IntOfProduct(w, 20), IntOfProduct(w, 80)),
      left_cheek |-> Window(IntOfProduct(h, 35), IntOfProduct(h, 70), 0, IntOfProduct(w, 35)),
      right_cheek |-> Window(IntOfProduct(h, 35), IntOfProduct(h, 70), IntOfProduct(w, 65), w),
      nose |-> Window(IntOfProduct(h, 30), IntOfProduct(h, 70), IntOfProduct(w, 35), IntOfProduct(w, 65)),
      chin |-> Window(IntOfProduct(h, 70), h, IntOfProduct(w, 25), IntOfProduct(w, 75)),
      full_face |-> Window(0, h, 0, w) ]

RegionsInit ==
    /\ srCrop \in CropSizes \X CropSizes
    /\ srRegions = <<>>

\* extract_skin_regions(image, face_result)
ExtractSkinRegionsCall ==
    /\ srRegions = <<>>
    /\ srRegions' = << SkinRegions(srCrop[1], srCrop[2]) >>
    /\ UNCHANGED srCrop
    /\ UNCHANGED otherThanRegions

\* the next face crop
ExtractSkinRegionsNext ==
    /\ srRegions # <<>>
    /\ srCrop' \in CropSizes \X CropSizes
    /\ srRegions' = <<>>
    /\ UNCHANGED otherThanRegions

RegionsNext ==
    \/ ExtractSkinRegionsCall
    \/ ExtractSkinRegionsNext

(***************************************************************************)
(* The specifications: one per component, the others at rest               *)
(***************************************************************************)
SvcAtRest == SvcInit /\ rapidapi_key = "" /\ hashSeed = 0
SevAtRest == SevInit /\ sevScore = 0
AnAtRest == AnInit
FaceAtRest == FaceInit /\ FACE_CASCADE_LOADED /\ MEDIAPIPE_LOADED
RecAtRest == recConcerns = <<>> /\ RecInit
ScoreAtRest == osMetrics = SkinMetrics(0, 0, 0, 0, 0, 0) /\ osConcerns = <<>> /\ ScoreInit
RiskAtRest == RiskInit
PrimAtRest == detected_concerns = <<>> /\ PrimInit
ConAtRest == ConInit
HeadPoseAtRest == hpLandmarks = [ count |-> 0, nose |-> << 0, 0 >>, left_eye |-> << 0, 0 >>, right_eye |-> << 0, 0 >>, left_mouth |-> << 0, 2 >>, right_mouth |-> << 1, 2 >> ] /\ hpPose = <<>>
RegionsAtRest == srCrop = << 1, 1 >> /\ srRegions = <<>>
\* the service idle, in a process with any string-hash seed
SvcAnySeed == SvcInit /\ rapidapi_key = ""

\* analyze_skin of the service
Init == SvcInit /\ SevAtRest /\ AnAtRest /\ FaceAtRest /\ RecAtRest /\ ScoreAtRest /\ RiskAtRest /\ PrimAtRest /\ ConAtRest /\ HeadPoseAtRest /\ RegionsAtRest
Next == SvcNext
Spec == Init /\ [][Next]_vars

\* _score_to_severity
SeverityInit == SevInit /\ SvcAtRest /\ AnAtRest /\ FaceAtRest /\ RecAtRest /\ ScoreAtRest /\ RiskAtRest /\ PrimAtRest /\ ConAtRest /\ HeadPoseAtRest /\ RegionsAtRest
SeveritySpec == SeverityInit /\ [][SevNext]_vars

\* SkinAnalyzer.analyze
AnalyzerInit == AnInit /\ SvcAtRest /\ SevAtRest /\ FaceAtRest /\ RecAtRest /\ ScoreAtRest /\ RiskAtRest /\ PrimAtRest /\ ConAtRest /\ HeadPoseAtRest /\ RegionsAtRest
AnalyzerSpec == AnalyzerInit /\ [][AnNext]_vars

\* detect_face_3d and detect_and_align
FaceLocatorInit == FaceInit /\ SvcAtRest /\ SevAtRest /\ AnAtRest /\ RecAtRest /\ ScoreAtRest /\ RiskAtRest /\ PrimAtRest /\ ConAtRest /\ HeadPoseAtRest /\ RegionsAtRest
FaceLocatorSpec == FaceLocatorInit /\ [][FaceNext]_vars

\* _generate_recommendations, in a process with any string-hash seed
RecommendationInit == RecInit /\ SvcAnySeed /\ SevAtRest /\ AnAtRest /\ FaceAtRest /\ ScoreAtRest /\ RiskAtRest /\ PrimAtRest /\ ConAtRest /\ HeadPoseAtRest /\ RegionsAtRest
RecommendationSpec == RecommendationInit /\ [][RecNext]_vars

\* _calculate_overall_score
OverallScoreInit == ScoreInit /\ SvcAtRest /\ SevAtRest /\ AnAtRest /\ FaceAtRest /\ RecAtRest /\ RiskAtRest /\ PrimAtRest /\ ConAtRest /\ HeadPoseAtRest /\ RegionsAtRest
OverallScoreSpec == OverallScoreInit /\ [][ScoreNext]_vars

\* SkinAnalyzer._calculate_risk_level
RiskLevelInit == RiskInit /\ SvcAtRest /\ SevAtRest /\ AnAtRest /\ FaceAtRest /\ RecAtRest /\ ScoreAtRest /\ PrimAtRest /\ ConAtRest /\ HeadPoseAtRest /\ RegionsAtRest
RiskLevelSpec == RiskLevelInit /\ [][RiskNext]_vars

\* SkinAnalysis.primary_concern
PrimaryConcernInit == PrimInit /\ SvcAtRest /\ SevAtRest /\ AnAtRest /\ FaceAtRest /\ RecAtRest /\ ScoreAtRest /\ RiskAtRest /\ ConAtRest /\ HeadPoseAtRest /\ RegionsAtRest
PrimaryConcernSpec == PrimaryConcernInit /\ [][PrimNext]_vars

\* concurrent invocations of analyze_skin on the singleton
ConcurrentInit == ConInit /\ SvcInit /\ SevAtRest /\ AnAtRest /\ FaceAtRest /\ RecAtRest /\ ScoreAtRest /\ RiskAtRest /\ PrimAtRest /\ HeadPoseAtRest /\ RegionsAtRest
ConcurrentSpec == ConcurrentInit /\ [][ConNext]_vars

\* _calculate_head_pose
HeadPoseSpecInit == HeadPoseInit /\ SvcAtRest /\ SevAtRest /\ AnAtRest /\ FaceAtRest /\ RecAtRest /\ ScoreAtRest /\ RiskAtRest /\ PrimAtRest /\ ConAtRest /\ RegionsAtRest
HeadPoseSpec == HeadPoseSpecInit /\ [][HeadPoseNext]_vars

\* FaceDetector.extract_skin_regions
RegionsSpecInit == RegionsInit /\ SvcAtRest /\ SevAtRest /\ AnAtRest /\ FaceAtRest /\ RecAtRest /\ ScoreAtRest /\ RiskAtRest /\ PrimAtRest /\ ConAtRest /\ HeadPoseAtRest
RegionsSpec == RegionsSpecInit /\ [][RegionsNext]_vars

(***************************************************************************)
(* Claims about analyze_skin                                               *)
(***************************************************************************)
\* the provider was contacted and the attempt produced no result
ProviderFailed ==
    /\ providerCalls = 1
    /\ \/ response.kind \in { "timeout", "error" }
       \/ response.kind = "http" /\ response.status_code # 200
       \/ response.kind = "http" /\ response.status_code = 200
          /\ (response.json = <<>> \/ ParseRaises(response.json[1], hashSeed))

\* C1: analyze_skin never lets an exception reach its caller: every finished
\* call has returned a result, and when the local analyzer raised after the
\* provider produced no result the result is the fallback (overall score
\* 50.0, skin type "unknown", confidence 0.0, no concerns).
C1_NeverRaises ==
    /\ ~raised
    /\ pc = "done" =>
          /\ Len(result) = 1
          /\ (localOutcome = "raises" /\ api_result = <<>>) =>
                /\ result[1].overall_score = 500
                /\ result[1].skin_type = "unknown"
                /\ result[1].confidence_score = 0
                /\ result[1].concerns = <<>>

C1_Witness ==
    /\ pc = "done"
    /\ providerCalls = 1
    /\ api_result = <<>>
    /\ localOutcome = "raises"
    /\ result = << FallbackResult >>

\* a value in the payload lies outside the range its field documents:
\* a score outside [0,100] or a confidence or quality outside [0,1]
EntryOutOfRange(e) ==
    \/ "score" \in DOMAIN e /\ (e["score"] < 0 \/ e["score"] > 100)
    \/ "confidence" \in DOMAIN e /\ (e["confidence"] < 0 \/ e["confidence"] > 100)

PayloadOutOfRange(d) ==
    \/ \E k \in DOMAIN d \ { "skin_type", "skin_age", "confidence", "image_quality" } :
          EntryOutOfRange(d[k])
    \/ \E k \in DOMAIN d \cap { "confidence", "image_quality" } : d[k] < 0 \/ d[k] > 100

\* C2 as stated: a provider attempt that ends in a timeout, a non-200 status,
\* a transport error or a payload with an out-of-range score or confidence is
\* followed by the local analyzer, whose result is returned.
C2_Original ==
    (/\ pc = "done"
     /\ providerCalls = 1
     /\ localOutcome # "raises"
     /\ \/ ProviderFailed
        \/ /\ response.kind = "http" /\ response.status_code = 200
           /\ response.json # <<>>
           /\ PayloadOutOfRange(response.json[1]))
    => result = << LocalResult >>

\* C2 (amended): when a key is configured and the provider attempt ends in a
\* timeout, a non-200 status, a transport error, a body that is not JSON or a
\* payload whose parsing raises (a metric or pores score outside [0,100], a
\* result confidence or image quality outside [0,1], a confidence outside
\* [0,1] on a concern whose severity is not none), the local analyzer runs
\* once and its result (confidence 0.6, image quality 0.8) is returned unless
\* it raises itself; nothing is raised to the caller.
C2_ProviderFailureFallsThrough ==
    /\ (ProviderFailed /\ pc \in { "except", "done" }) =>
          /\ ~raised
          /\ localRuns = 1
    /\ (ProviderFailed /\ pc = "done" /\ localOutcome = "ok") =>
          /\ result = << LocalResult >>
          /\ result[1].confidence_score = 60
          /\ result[1].image_quality_score = 80

C2_Witness ==
    /\ pc = "done"
    /\ Truthy(rapidapi_key)
    /\ response.kind = "http" /\ response.status_code = 200
    /\ response.json # <<>>
    /\ "confidence" \in DOMAIN response.json[1]
    /\ response.json[1]["confidence"] > 100
    /\ localOutcome = "ok"
    /\ result = << LocalResult >>

\* C3 as stated: the provider is contacted if and only if rapidapi_key is
\* non-empty.
C3_Original ==
    pc = "done" => (providerCalls >= 1 <=> Truthy(rapidapi_key))

\* C3 (amended): the provider is contacted if and only if rapidapi_key is
\* non-empty and an image (URL or base64) was passed, and at most once per
\* call; the local analyzer runs if and only if the provider was not
\* contacted or produced no result; with an empty key the local analyzer's
\* result (confidence 0.6) is returned; a result the provider produced is
\* returned unchanged without running the local analyzer.
C3_PathSelection ==
    /\ providerCalls <= 1
    /\ localRuns <= 1
    /\ pc = "done" =>
          /\ providerCalls = 1 <=>
                (Truthy(rapidapi_key) /\ (Truthy(image_url) \/ Truthy(image_base64)))
          /\ localRuns = 1 <=> (providerCalls = 0 \/ api_result = <<>>)
          /\ (~Truthy(rapidapi_key) /\ localOutcome = "ok") =>
                (result = << LocalResult >> /\ result[1].confidence_score = 60)
          /\ api_result # <<>> =>
                /\ result = api_result
                /\ result = ParseRapidapiResponse(response.json[1], hashSeed)
                /\ localRuns = 0

C3_Witness ==
    /\ pc = "done"
    /\ Truthy(rapidapi_key)
    /\ ~Truthy(image_url) /\ ~Truthy(image_base64)
    /\ providerCalls = 0
    /\ localRuns = 1
    /\ result = << LocalResult >>

SeverityRank(label) == CHOOSE i \in 1..Len(SeverityLevels) : SeverityLevels[i] = label

\* C5: _score_to_severity maps every score of [0,100] to exactly one of the
\* five levels: below 20 none, 20..39 mild, 40..59 moderate, 60..79 severe,
\* 80 and above very_severe; and no lower score has a higher severity.
C5_SeverityBands ==
    sevLabel # "unset" =>
        /\ Cardinality({ i \in 1..Len(SeverityLevels) : SeverityLevels[i] = sevLabel }) = 1
        /\ sevLabel = "none" <=> sevScore < 20
        /\ sevLabel = "mild" <=> (20 <= sevScore /\ sevScore <= 39)
        /\ sevLabel = "moderate" <=> (40 <= sevScore /\ sevScore <= 59)
        /\ sevLabel = "severe" <=> (60 <= sevScore /\ sevScore <= 79)
        /\ sevLabel = "very_severe" <=> 80 <= sevScore
        /\ \A lower \in 0..sevScore :
              SeverityRank(ScoreToSeverity(lower)) <= SeverityRank(sevLabel)

C5_Witness ==
    /\ sevScore = 20
    /\ sevLabel = "mild"

(***************************************************************************)
(* Claims about check_quality and SkinAnalyzer.analyze (AnalyzerSpec)      *)
(***************************************************************************)
\* C6: the report of check_quality has in_focus = (sharpness >= 100),
\* clear = (40 <= mean brightness <= 220), detected = (width >= 640 and
\* height >= 480), and overall_quality = (in_focus and detected and clear).
C6_QualityAggregate ==
    quality # <<>> =>
        LET q == quality[1]
        IN  /\ q.in_focus = (anImage.sharpness >= 100)
            /\ q.clear = (40 <= anImage.brightness /\ anImage.brightness <= 220)
            /\ q.detected = (anImage.width >= 640 /\ anImage.height >= 480)
            /\ q.overall_quality = (q.in_focus /\ q.detected /\ q.clear)

C6_Witness ==
    /\ quality # <<>>
    /\ anImage.brightness = 220
    /\ anImage.sharpness = 100
    /\ anImage.height = 479
    /\ quality[1].in_focus /\ quality[1].clear
    /\ ~quality[1].detected
    /\ ~quality[1].overall_quality

\* C7: with validate_quality on, the quality check is the first step of
\* analyze and precedes preprocessing and the forward pass; when
\* overall_quality is false the call ends with neither of them run and the
\* report, with its failing indicators, is what the caller receives.
C7_QualityGateOrdering ==
    (validate_quality /\ anPc # "idle") =>
        /\ \A i \in 1..Len(anSteps) :
              anSteps[i] \in { "transform", "model", "process_outputs" } =>
                  (i > 1 /\ anSteps[1] = "check_quality" /\ quality # <<>>)
        /\ (quality # <<>> /\ ~quality[1].overall_quality) =>
              /\ anPc = "done"
              /\ anSteps = << "check_quality" >>
              /\ anError = quality
              /\ \E k \in { "in_focus", "detected", "clear" } : ~anError[1][k]

C7_Witness ==
    /\ anPc = "done"
    /\ validate_quality
    /\ quality # <<>>
    /\ ~quality[1].in_focus
    /\ anSteps = << "check_quality" >>
    /\ anError = quality

\* C8: an image that fails the quality gate, and an image without a face, end
\* in a returned value, not in an exception, from SkinAnalyzer.analyze,
\* detect_face_3d and FaceDetector.detect_and_align.
C8_NegativeOutcomesReturned ==
    /\ (anPc = "done" /\ quality # <<>> /\ ~quality[1].overall_quality) =>
          anOutcome = "returned"
    /\ (fPc = "done" /\ faces = <<>>) => fOutcome = "returned"

(***************************************************************************)
(* Claims about the face locator (FaceLocatorSpec)                         *)
(***************************************************************************)
Distinct(keys) ==
    \A i, j \in 1..Len(keys) : i # j => keys[i] # keys[j]

Permute(s, p) == [ i \in 1..Len(s) |-> s[p[i]] ]

RawAreas(fs) == [ i \in 1..Len(fs) |-> fs[i][3] * fs[i][4] ]

BBoxAreas(ds) == [ i \in 1..Len(ds) |-> BBoxArea(ds[i]) ]

\* C9: given two or more detections with pairwise distinct bounding-box
\* areas, detect_face_3d and detect_and_align each select the detection with
\* the largest area, and every permutation of the list gives the same one.
C9_PrimaryFaceDeterminism ==
    /\ (/\ fFn = "detect_face_3d"
        /\ fPc \in { "d3_mesh", "done" }
        /\ Len(faces) >= 2
        /\ Distinct(RawAreas(faces))) =>
          /\ Len(f3d.face_bounding_box) = 1
          /\ LET b == f3d.face_bounding_box[1]
             IN  /\ b \in Range(faces)
                 /\ \A i \in 1..Len(faces) : faces[i][3] * faces[i][4] <= b[3] * b[4]
                 /\ \A p \in Permutations(1..Len(faces)) :
                       PrimaryFace3D(Permute(faces, p)) = b
    /\ (/\ fFn = "detect_and_align"
        /\ fPc = "done"
        /\ Len(detections) >= 2
        /\ Distinct(BBoxAreas(detections))) =>
          /\ Len(daResult) = 1
          /\ LET d == daResult[1]
             IN  /\ \E i \in 1..Len(detections) : detections[i].bbox = d.bbox
                 /\ \A i \in 1..Len(detections) : BBoxArea(detections[i]) <= BBoxArea(d)
                 /\ \A p \in Permutations(1..Len(faces)) :
                       PrimaryDetection(DetectFaces(Permute(faces, p), ImageSize)).bbox
                           = d.bbox

C9_Witness ==
    /\ fFn = "detect_face_3d"
    /\ fPc = "done"
    /\ Len(faces) = 3
    /\ Distinct(RawAreas(faces))
    /\ f3d.face_bounding_box = << faces[3] >>

\* C10: when the cascade returns no face, detect_face_3d returns
\* detected = false and num_faces = 0 without running the mesh step and
\* without raising, and detect_and_align returns no detection without
\* cropping or resizing.
C10_ZeroFacesTerminal ==
    /\ fOutcome # "raised"
    /\ (/\ fFn = "detect_face_3d"
        /\ image_data = "image"
        /\ fPc \in { "d3_select", "d3_mesh", "done" }
        /\ faces = <<>>) =>
          /\ fPc = "done"
          /\ fOutcome = "returned"
          /\ ~f3d.detected
          /\ f3d.num_faces = 0
          /\ meshCalls = 0
          /\ f3d.landmarks = <<>>
          /\ f3d.head_pose = <<>>
          /\ f3d.face_bounding_box = <<>>
          /\ f3d.quality_score = 0
    /\ (fFn = "detect_and_align" /\ fPc = "done" /\ faces = <<>>) =>
          /\ fOutcome = "returned"
          /\ daResult = <<>>
          /\ cropCalls = 0
          /\ resizeCalls = 0

C10_Witness ==
    /\ fFn = "detect_face_3d"
    /\ fPc = "done"
    /\ image_data = "image"
    /\ FACE_CASCADE_LOADED /\ MEDIAPIPE_LOADED /\ use_3d_mesh
    /\ faces = <<>>
    /\ ~f3d.detected
    /\ meshCalls = 0

\* C11: undecodable image bytes given to detect_face_3d reach the caller as
\* an input error and not as the zero-faces outcome: the call does not end by
\* returning a Face3DData with detected = false and num_faces = 0, which is
\* what a decodable image without a face gives.
C11_UndecodableIsInputError ==
    (/\ fFn = "detect_face_3d"
     /\ fPc = "done"
     /\ image_data \in { "garbage", "None" }) =>
        ~(/\ fOutcome = "returned"
          /\ f3d.detected = FALSE
          /\ f3d.num_faces = 0)

(***************************************************************************)
(* Further claims about analyze_skin (Spec)                                *)
(***************************************************************************)
\* C12: a call of analyze_skin without any image (neither image_url nor
\* image_base64) produces no analysis result with a positive confidence: it
\* ends in an input-error outcome, not in a provider or local result.
C12_NoImageIsInputError ==
    (pc = "done" /\ ~HasImage(image_url, image_base64)) =>
        /\ result # << LocalResult >>
        /\ api_result = <<>>
        /\ (raised \/ \A i \in 1..Len(result) : result[i].confidence_score = 0)

(***************************************************************************)
(* Claims about _generate_recommendations (RecommendationSpec)             *)
(***************************************************************************)
\* C13: for every concern list, also one that repeats a concern type, the
\* list _generate_recommendations returns has no duplicate strings and at
\* most 10 entries.
C13_RecommendationsDistinctAndCapped ==
    recOut # <<>> =>
        /\ Len(recOut[1]) <= 10
        /\ \A i, j \in 1..Len(recOut[1]) : i # j => recOut[1][i] # recOut[1][j]

C13_Witness ==
    /\ recOut # <<>>
    /\ Len(recConcerns) = 5
    /\ recConcerns[1].concern_type = recConcerns[2].concern_type
    /\ Cardinality({ recConcerns[i].concern_type : i \in 1..5 }) = 4
    /\ Cardinality(ConcernRecs(recConcerns)) = 8
    /\ Len(recOut[1]) = 10

\* C14: for every concern list, the returned recommendations contain the
\* three baseline recommendations (cleanse twice daily, SPF 30+ every
\* morning, moisturize daily), also when the concern entries alone reach the
\* cap of 10.
C14_BaselinesAlwaysIncluded ==
    recOut # <<>> => Range(BasicRecommendations) \subseteq Range(recOut[1])

(***************************************************************************)
(* Claims about _calculate_overall_score (OverallScoreSpec)                *)
(***************************************************************************)
\* the penalty table of the claim; a label outside it has no stated penalty
StatedPenalty(severity) ==
    CASE severity = "none" -> 0
      [] severity = "mild" -> 5
      [] severity = "moderate" -> 10
      [] severity = "severe" -> 15
      [] severity = "very_severe" -> 20

\* the score before rounding, in hundredths: the mean of the five metrics
\* (given in tenths) minus the penalty, clamped to [0, 100]
ExactScore(metrics, penalty) ==
    LET sum == metrics.hydration_score + metrics.texture_score
               + metrics.elasticity_score + metrics.pore_size_score
               + metrics.skin_tone_evenness
    IN  Max(0, Min(10000, 2 * sum - 100 * penalty))

\* r tenths is x hundredths rounded to one decimal
IsRounded(r, x) == 10 * r - x < 5 /\ x - 10 * r < 5

\* C15: for metrics in [0,100] and every concern list, the score returned by
\* _calculate_overall_score is within [0,100] and is the one-decimal rounding
\* of clamp(mean of hydration, texture, elasticity, pore_size and evenness
\* minus the summed penalties none 0, mild 5, moderate 10, severe 15,
\* very_severe 20); a moderate and a mild concern take exactly 15 off.
C15_OverallScoreFormula ==
    osScore # <<>> =>
        LET severities == [ i \in 1..Len(osConcerns) |-> osConcerns[i].severity ]
        IN  /\ 0 <= osScore[1] /\ osScore[1] <= 1000
            /\ Range(severities) \subseteq Range(SeverityLevels) =>
                  IsRounded(osScore[1],
                            ExactScore(osMetrics,
                                       SumSeq([ i \in 1..Len(severities) |->
                                                  StatedPenalty(severities[i]) ])))
            /\ severities = << "moderate", "mild" >> =>
                  IsRounded(osScore[1], ExactScore(osMetrics, 15))

C15_Witness ==
    /\ osScore # <<>>
    /\ Len(osConcerns) = 2
    /\ osConcerns[1].severity = "moderate"
    /\ osConcerns[2].severity = "mild"
    /\ osMetrics = SkinMetrics(333, 0, 1000, 1000, 0, 0)
    /\ osScore[1] = 317

(***************************************************************************)
(* Claims about SkinAnalyzer._calculate_risk_level (RiskLevelSpec)         *)
(***************************************************************************)
\* C16: the risk level is low for an empty concern set; otherwise high when
\* the largest confidence exceeds 0.9 or there are more than 5 concerns;
\* otherwise moderate when the largest confidence exceeds 0.7 or there are
\* more than 3 concerns; otherwise low.  High wins when both tests hold.
C16_RiskLevelClassification ==
    rlLevel # "unset" =>
        LET n == Cardinality(DOMAIN rlConcerns)
            HighTest == \/ \E k \in DOMAIN rlConcerns : rlConcerns[k] > 90
                        \/ n > 5
            ModerateTest == \/ \E k \in DOMAIN rlConcerns : rlConcerns[k] > 70
                            \/ n > 3
        IN  /\ rlLevel \in RiskLevels
            /\ n = 0 => rlLevel = "low"
            /\ (n > 0 /\ HighTest) => rlLevel = "high"
            /\ (n > 0 /\ ~HighTest /\ ModerateTest) => rlLevel = "moderate"
            /\ (n > 0 /\ ~HighTest /\ ~ModerateTest) => rlLevel = "low"

C16_Witness ==
    /\ rlLevel = "high"
    /\ Cardinality(DOMAIN rlConcerns) = 4
    /\ rlConcerns["acne"] = 91
    /\ rlConcerns["wrinkles"] = 71

(***************************************************************************)
(* Further claims about the results of analyze_skin (Spec)                 *)
(***************************************************************************)
\* the skin types of the data model
SkinTypes == { "dry", "oily", "combination", "normal", "sensitive" }

\* C17: every result analyze_skin returns from the provider-backed path or
\* from the local rule-based path has its skin_type in {dry, oily,
\* combination, normal, sensitive}, whatever the provider payload.
C17_SkinTypeClosedSet ==
    (/\ pc = "done"
     /\ result # <<>>
     /\ \/ api_result # <<>> /\ result = api_result
        \/ localOutcome = "ok" /\ result = << LocalResult >>) =>
        result[1].skin_type \in SkinTypes

(***************************************************************************)
(* Claims about SkinAnalysis.primary_concern (PrimaryConcernSpec)          *)
(***************************************************************************)
\* the rank of a severity label: none < mild < moderate < severe <
\* very_severe; a missing or unknown label ranks as none
RankOf(x) ==
    LET label == IF "severity" \in DOMAIN x THEN x["severity"] ELSE "none"
    IN  IF label \in Range(SeverityLevels) THEN SeverityRank(label) - 1 ELSE 0

ConfidenceOf(x) == IF "confidence" \in DOMAIN x THEN x["confidence"] ELSE 0

\* (rank, confidence) of a is lexicographically at most that of b
PairAtMost(a, b) ==
    \/ RankOf(a) < RankOf(b)
    \/ RankOf(a) = RankOf(b) /\ ConfidenceOf(a) <= ConfidenceOf(b)

\* C18: for a non-empty list of detected concerns, primary_concern returns a
\* concern whose (severity rank, confidence) pair is lexicographically
\* maximal, and among the concerns with that same pair it returns the
\* earliest of the stored list, on every evaluation.
C18_PrimaryConcernSelection ==
    (primaryEvaluated /\ StoredConcerns(detected_concerns) # <<>>) =>
        LET cs == StoredConcerns(detected_concerns)
        IN  /\ Len(primary) = 1
            /\ \E i \in 1..Len(cs) :
                  /\ primary[1] = cs[i]
                  /\ \A j \in 1..Len(cs) : PairAtMost(cs[j], cs[i])
                  /\ \A j \in 1..(i - 1) : ~PairAtMost(cs[i], cs[j])
            /\ PrimaryConcern(detected_concerns) = primary

C18_Witness ==
    /\ primaryEvaluated
    /\ Len(StoredConcerns(detected_concerns)) = 3
    /\ LET cs == StoredConcerns(detected_concerns)
       IN  /\ cs[1] = ("concern_type" :> "acne") @@ ("severity" :> "mild")
           /\ cs[2] = ("concern_type" :> "wrinkles") @@ ("severity" :> "severe")
                      @@ ("confidence" :> 90)
           /\ cs[3] = ("concern_type" :> "acne") @@ ("severity" :> "severe")
                      @@ ("confidence" :> 90)
           /\ primary = << cs[2] >>

(***************************************************************************)
(* Claims about concurrent invocations of analyze_skin (ConcurrentSpec)    *)
(***************************************************************************)
\* the result of one analyze_skin invocation as a function of the service's
\* fields, the invocation's own arguments, its own provider response and the
\* way its own local analysis ended
ResultOfAlone(key, seed, url, b64, r, local_outcome) ==
    LET contacted == Truthy(key) /\ (Truthy(url) \/ Truthy(b64))
        parsed == IF contacted /\ r.kind = "http" /\ r.status_code = 200 /\ r.json # <<>>
                  THEN ParseRapidapiResponse(r.json[1], seed)
                  ELSE <<>>
    IN  IF parsed # <<>> THEN parsed
        ELSE IF local_outcome = "ok" THEN << LocalResult >>
        ELSE << FallbackResult >>

\* every finished invocation holds the result it would have produced alone
ResultsIndependent ==
    \A i \in CallIds :
        calls[i].pc = "done" =>
            /\ ~calls[i].raised
            /\ calls[i].result =
                  ResultOfAlone(rapidapi_key, hashSeed, calls[i].image_url,
                                calls[i].image_base64, calls[i].response,
                                calls[i].localOutcome)

\* C19: under every interleaving of several analyze_skin invocations on the
\* shared singleton, each invocation's result depends only on its own
\* arguments and its own provider response, and no step of an invocation
\* changes the service's API key, timeout or recommendation table.
C19_ConcurrentCallsIndependent ==
    /\ []ResultsIndependent
    /\ [][/\ rapidapi_key' = rapidapi_key
          /\ timeout' = timeout
          /\ recommendation_table' = recommendation_table]_vars

C19_Witness ==
    /\ rapidapi_key = "test-key"
    /\ calls[1].pc = "post"
    /\ calls[1].image_url = "https://example.com/face.jpg"
    /\ calls[2].pc = "done"
    /\ calls[2].image_base64 = "aGVsbG8="
    /\ calls[2].response.kind = "timeout"
    /\ calls[2].result = << LocalResult >>

(***************************************************************************)
(* Further claims about the face locator (FaceLocatorSpec)                 *)
(***************************************************************************)
\* C20: when two or more detections share the largest bounding-box area, the
\* primary face selected by detect_face_3d and by detect_and_align is the one
\* of them with the smallest (leftmost) x1, whatever the order of the list.
C20_TieBreakLeftmost ==
    /\ (/\ fFn = "detect_face_3d"
        /\ fPc \in { "d3_mesh", "done" }
        /\ Len(faces) >= 2) =>
          /\ Len(f3d.face_bounding_box) = 1
          /\ LET b == f3d.face_bounding_box[1]
             IN  \A i \in 1..Len(faces) :
                    faces[i][3] * faces[i][4] = b[3] * b[4] => b[1] <= faces[i][1]
    /\ (/\ fFn = "detect_and_align"
        /\ fPc = "done"
        /\ Len(detections) >= 2) =>
          /\ Len(daResult) = 1
          /\ LET d == daResult[1]
             IN  \A i \in 1..Len(detections) :
                    BBoxArea(detections[i]) = BBoxArea(d) =>
                        d.bbox[1] <= detections[i].bbox[1]

\* C21: for every raw detection (x, y, w, h) with w, h > 0 inside the W x H
\* image, detect_faces returns the box (max(0, x-p), max(0, y-p),
\* min(W, x+w+p), min(H, y+h+p)) with p = floor(0.2 * max(w, h)); the box has
\* 0 <= x1 < x2 <= W and 0 <= y1 < y2 <= H and contains the raw detection.
C21_PaddingAndClamping ==
    (fFn = "detect_and_align" /\ fPc \in { "da_select", "done" }) =>
        /\ Len(detections) = Len(faces)
        /\ \A i \in 1..Len(faces) :
              LET x == faces[i][1]
                  y == faces[i][2]
                  w == faces[i][3]
                  h == faces[i][4]
                  m == IF w >= h THEN w ELSE h
                  p == CHOOSE q \in 0..m : 5 * q <= m /\ m < 5 * q + 5
                  b == detections[i].bbox
              IN  /\ b[1] = (IF x - p < 0 THEN 0 ELSE x - p)
                  /\ b[2] = (IF y - p < 0 THEN 0 ELSE y - p)
                  /\ b[3] = (IF x + w + p > ImageSize[1] THEN ImageSize[1] ELSE x + w + p)
                  /\ b[4] = (IF y + h + p > ImageSize[2] THEN ImageSize[2] ELSE y + h + p)
                  /\ 0 <= b[1] /\ b[1] < b[3] /\ b[3] <= ImageSize[1]
                  /\ 0 <= b[2] /\ b[2] < b[4] /\ b[4] <= ImageSize[2]
                  /\ b[1] <= x /\ x + w <= b[3]
                  /\ b[2] <= y /\ y + h <= b[4]

C21_Witness ==
    /\ fFn = "detect_and_align"
    /\ fPc = "da_select"
    /\ faces = << << 0, 0, 110, 110 >>, << 520, 360, 120, 120 >>, << 300, 50, 120, 130 >> >>
    /\ detections[1].bbox = << 0, 0, 132, 132 >>
    /\ detections[2].bbox = << 496, 336, 640, 480 >>
    /\ detections[3].bbox = << 274, 24, 446, 206 >>

(***************************************************************************)
(* Further claims about _generate_recommendations (RecommendationSpec)     *)
(***************************************************************************)
\* the elements of s in their first-seen order, each once
RECURSIVE FirstSeen(_)
FirstSeen(s) ==
    IF s = <<>> THEN <<>>
    ELSE LET rest == FirstSeen(SubSeq(s, 1, Len(s) - 1))
         IN  IF s[Len(s)] \in Range(rest) THEN rest ELSE Append(rest, s[Len(s)])

\* the baselines, then each concern's first two entries in concern order
RECURSIVE EntriesInConcernOrder(_)
EntriesInConcernOrder(concerns) ==
    IF concerns = <<>> THEN <<>>
    ELSE Prefix(Get(concern_recommendations, Head(concerns).concern_type, <<>>), 2)
         \o EntriesInConcernOrder(Tail(concerns))

\* C22: _generate_recommendations returns its entries in first-seen order,
\* the three baselines first and then each concern's entries in concern
\* order, and a second call with the same concern list returns the same
\* sequence.
C22_FirstSeenOrder ==
    recOut # <<>> =>
        /\ recOut[1] = Prefix(FirstSeen(BasicRecommendations
                                        \o EntriesInConcernOrder(recConcerns)), 10)
        /\ GenerateRecommendations(recConcerns, hashSeed) = recOut[1]

(***************************************************************************)
(* Further claims about the local and the provider path (Spec)             *)
(***************************************************************************)
\* C23: the overall_score of the result of _analyze_locally is the blended
\* score of that result: the mean of its hydration, texture, elasticity,
\* pore size and tone evenness metrics minus the severity penalties of its
\* concerns, clamped to [0,100] and rounded to one decimal.
C23_LocalScoreIsBlended ==
    (pc = "done" /\ localOutcome = "ok" /\ result # <<>>) =>
        LET r == result[1]
            sum == r.metrics.hydration_score + r.metrics.texture_score
                   + r.metrics.elasticity_score + r.metrics.pore_size_score
                   + r.metrics.skin_tone_evenness
            penalty == SumSeq([ i \in 1..Len(r.concerns) |->
                                  SeverityWeight(r.concerns[i].severity) ])
        IN  /\ r.overall_score = CalculateOverallScore(r.concerns, r.metrics)
            /\ r.overall_score = Max(0, Min(1000, 2 * sum - 10 * penalty))

(***************************************************************************)
(* Claims about the landmark step of detect_face_3d (FaceLocatorSpec)      *)
(***************************************************************************)
\* C24: every Face3DData detect_face_3d returns has quality_score in [0,1];
\* when the mesh step yields landmarks the score is 1.0, minus 0.2 if the
\* face is not frontal (not (|yaw| < 25 and |pitch| < 20)), minus 0.15 if the
\* eye aspect ratio is below 0.1, floored at 0.
C24_CompositeQualityScore ==
    (fFn = "detect_face_3d" /\ fPc = "done") =>
        /\ 0 <= f3d.quality_score /\ f3d.quality_score <= 100
        /\ f3d.landmarks # <<>> =>
              LET pose == f3d.head_pose[1]
                  frontal == /\ pose.yaw < 25 /\ pose.yaw > 0 - 25
                             /\ pose.pitch < 20 /\ pose.pitch > 0 - 20
                  score == 100 - (IF frontal THEN 0 ELSE 20)
                               - (IF f3d.eye_aspect_ratio[1] < 10 THEN 15 ELSE 0)
              IN  f3d.quality_score = (IF score < 0 THEN 0 ELSE score)

C24_Witness ==
    /\ fFn = "detect_face_3d"
    /\ fPc = "done"
    /\ f3d.landmarks # <<>>
    /\ f3d.landmark_count = 478
    /\ f3d.head_pose = << [ yaw |-> 0 - 30, pitch |-> 0, roll |-> 0 ] >>
    /\ f3d.eye_aspect_ratio = << 5 >>
    /\ f3d.quality_score = 65

\* C25: when the landmark backend is unavailable or returns fewer than 468
\* landmarks, detect_face_3d does not raise, the head-pose fields yaw, pitch
\* and roll are all zero, and the result is not reported as a frontal face
\* with an undegraded quality score.
C25_DegradedLandmarks ==
    (/\ fFn = "detect_face_3d"
     /\ fPc = "done"
     /\ f3d.detected
     /\ use_3d_mesh
     /\ \/ ~MEDIAPIPE_LOADED
        \/ f3d.landmarks # <<>> /\ f3d.landmark_count < 468) =>
        /\ fOutcome = "returned"
        /\ f3d.head_pose = << [ yaw |-> 0, pitch |-> 0, roll |-> 0 ] >>
        /\ ~(f3d.is_frontal /\ f3d.quality_score = 100)

(***************************************************************************)
(* Claims about _calculate_head_pose (HeadPoseSpec)                        *)
(***************************************************************************)
\* C26: for every landmark list, each of the yaw, pitch and roll angles that
\* _calculate_head_pose returns lies in [-90, 90] degrees, also when the
\* right-eye landmark lies to the left of the left-eye landmark.
C26_HeadPoseRange ==
    hpPose # <<>> =>
        /\ 0 - 90 <= hpPose[1].yaw /\ hpPose[1].yaw <= 90
        /\ 0 - 90 <= hpPose[1].pitch /\ hpPose[1].pitch <= 90
        /\ 0 - 90 <= hpPose[1].roll /\ hpPose[1].roll <= 90

(***************************************************************************)
(* Claims about FaceDetector.extract_skin_regions (RegionsSpec)            *)
(***************************************************************************)
\* the window rows r0%..r1% x columns c0%..c1% of an h x w crop
FractionWindow(h, w, r0, r1, c0, c1) ==
    Window(IntOfProduct(h, r0), IF r1 = 100 THEN h ELSE IntOfProduct(h, r1),
           IntOfProduct(w, c0), IF c1 = 100 THEN w ELSE IntOfProduct(w, c1))

\* a window lies inside an h x w crop
InsideCrop(win, h, w) ==
    /\ 0 <= win.rows[1] /\ win.rows[1] <= win.rows[2] /\ win.rows[2] <= h
    /\ 0 <= win.cols[1] /\ win.cols[1] <= win.cols[2] /\ win.cols[2] <= w

\* C27: extract_skin_regions cuts the forehead at rows 0..30% x columns
\* 20..80%, the cheeks at rows 35..70% x the outer 35% column bands, the nose
\* at rows 35..70% x columns 35..65% and the chin at rows 70..100% x columns
\* 25..75%, and every window lies inside the crop.
C27_RegionWindows ==
    srRegions # <<>> =>
        LET h == srCrop[1]
            w == srCrop[2]
            r == srRegions[1]
        IN  /\ r.forehead = FractionWindow(h, w, 0, 30, 20, 80)
            /\ r.left_cheek = FractionWindow(h, w, 35, 70, 0, 35)
            /\ r.right_cheek = FractionWindow(h, w, 35, 70, 65, 100)
            /\ r.nose = FractionWindow(h, w, 35, 70, 35, 65)
            /\ r.chin = FractionWindow(h, w, 70, 100, 25, 75)
            /\ \A k \in DOMAIN r : InsideCrop(r[k], h, w)

(***************************************************************************)
(* Claims about the concerns of a provider result (Spec)                   *)
(***************************************************************************)
ProviderConcernTypes == { "acne", "wrinkles", "dark_spots", "dark_circles", "pores" }

\* the payload entry of a concern type (optional); the dark_spots entry is
\* read under "dark_spots" or else under "pigmentation"
PayloadEntry(data, type) ==
    IF type \in DOMAIN data THEN << data[type] >>
    ELSE IF type = "dark_spots" /\ "pigmentation" \in DOMAIN data THEN << data["pigmentation"] >>
    ELSE <<>>

\* the raw score of a payload entry, a missing score counting as 0
RawScore(entry) == IF "score" \in DOMAIN entry THEN entry["score"] ELSE 0

\* C28: in every result parsed from a provider payload, a concern of type
\* acne, wrinkles, dark_spots, dark_circles or pores is listed if and only if
\* its payload entry is present and its raw score is at least 20 (a missing
\* score counting as 0); the severity listed for it is _score_to_severity of
\* that raw score; no concern of severity none is listed.
C28_ProviderSeverityDerivation ==
    (pc = "done" /\ api_result # <<>>) =>
        LET data == response.json[1]
            concerns == result[1].concerns
            Listed(type) == { i \in 1..Len(concerns) : concerns[i].concern_type = type }
        IN  /\ \A type \in ProviderConcernTypes :
                  LET entry == PayloadEntry(data, type)
                  IN  /\ Listed(type) # {} <=> (entry # <<>> /\ RawScore(entry[1]) >= 20)
                      /\ \A i \in Listed(type) :
                            concerns[i].severity = ScoreToSeverity(RawScore(entry[1]))
            /\ \A i \in 1..Len(concerns) :
                  /\ concerns[i].concern_type \in ProviderConcernTypes
                  /\ concerns[i].severity # "none"

\* the tests' payload: wrinkles at the breakpoint 20 are listed as mild,
\* dark_spots at 15 are not listed
C28_Witness ==
    /\ pc = "done"
    /\ api_result # <<>>
    /\ response.json[1] = MockRapidapiResponse
    /\ \E i \in 1..Len(result[1].concerns) :
          result[1].concerns[i].concern_type = "wrinkles" /\ result[1].concerns[i].severity = "mild"
    /\ \A i \in 1..Len(result[1].concerns) : result[1].concerns[i].concern_type # "dark_spots"

StrictlyLargestRaw(fs) ==
    \E i \in 1..Len(fs) : \A j \in 1..Len(fs) : j # i => fs[j][3] * fs[j][4] < fs[i][3] * fs[i][4]

\* C30: for every list of raw detections in which one has strictly the
\* largest raw area, detect_and_align (largest padded, clamped box) selects
\* the detection that detect_face_3d (largest raw w*h) selects, also when the
\* largest face lies at the image border.
C30_SelectorsAgree ==
    /\ (fFn = "detect_and_align" /\ fPc = "done" /\ faces # <<>> /\ StrictlyLargestRaw(faces)) =>
          daResult[1].bbox = PaddedDetection(PrimaryFace3D(faces), ImageSize).bbox
    /\ (fFn = "detect_face_3d" /\ fPc = "done" /\ faces # <<>> /\ StrictlyLargestRaw(faces)) =>
          PaddedDetection(f3d.face_bounding_box[1], ImageSize).bbox
              = PrimaryDetection(DetectFaces(faces, ImageSize)).bbox

====
